---------------------------- MODULE Spec2Model ----------------------------
(***************************************************************************)
(* Provider resilience and streaming layer of the PAL MCP server:          *)
(* the SSE stream aggregator, the retry executor with its error            *)
(* classifier, the alias-aware allow-list, the remote model catalog cache  *)
(* and the call-timeout guard with provider rotation.                      *)
(*                                                                         *)
(* Each component has a specification of its own over the module's         *)
(* variables (SpecStream, SpecRetry, SpecAllow, SpecCatalog, SpecGuard,    *)
(* SpecUsage, SpecBudget); the variables of the other components stay at   *)
(* their initial values.  SpecGenerate joins the allow-list check with the *)
(* retry loop of one generate_content call, and SpecRetryLive is SpecRetry *)
(* with the fairness its termination needs.                                *)
(***************************************************************************)
EXTENDS Integers, Sequences, FiniteSets, TLC

(***************************************************************************)
(* Decoded JSON values.  Every value is a record [t, v]: t is the JSON     *)
(* type, v the Python value (a sequence of characters for a string, a      *)
(* sequence of values for a list, a function from keys for an object).     *)
(***************************************************************************)
Null == [t |-> "null", v |-> 0]

Str(s) == [t |-> "str", v |-> s]

Num(n) == [t |-> "num", v |-> n]

List(s) == [t |-> "list", v |-> s]

Dict(f) == [t |-> "dict", v |-> f]

\* dict.get(key): None for a missing key
Get(d, k) == IF k \in DOMAIN d.v THEN d.v[k] ELSE Null

IsDict(x) == x.t = "dict"

IsList(x) == x.t = "list"

IsStr(x) == x.t = "str"

IsNone(x) == x.t = "null"

\* Python truthiness of a decoded value
Truthy(x) ==
    CASE x.t = "null" -> FALSE
      [] x.t = "num"  -> x.v # 0
      [] x.t = "str"  -> x.v # <<>>
      [] x.t = "list" -> x.v # <<>>
      [] x.t = "dict" -> DOMAIN x.v # {}
      [] OTHER        -> TRUE

\* "".join(parts) over texts that are sequences of characters
RECURSIVE Join(_)
Join(parts) == IF parts = <<>> THEN <<>> ELSE Head(parts) \o Join(Tail(parts))

(***************************************************************************)
(* Usage normalisation (_extract_usage_dict).                              *)
(***************************************************************************)
\* _to_int: int(value or 0), 0 when the conversion raises
ToInt(x) == IF x.t = "num" THEN x.v ELSE 0

NoUsage == [present |-> FALSE, input_tokens |-> 0, output_tokens |-> 0, total_tokens |-> 0]

UsageRec(i, o, t) == [present |-> TRUE, input_tokens |-> i, output_tokens |-> o, total_tokens |-> t]

\* counts read from the chat-completions keys only
NormalizedCounts_ChatKeysOnly(usage) ==
    LET input_tokens == ToInt(Get(usage, "prompt_tokens"))
        output_tokens == ToInt(Get(usage, "completion_tokens"))
        t0 == Get(usage, "total_tokens")
    IN  [input_tokens |-> input_tokens, output_tokens |-> output_tokens,
         total_tokens |-> IF IsNone(t0) THEN input_tokens + output_tokens ELSE ToInt(t0)]

\* the three counts of a dict usage block: the chat-completions keys, or the
\* responses keys when prompt_tokens, completion_tokens and total_tokens are all
\* None; a total that is None is the sum of the other two
NormalizedCounts(usage) ==
    LET p0 == Get(usage, "prompt_tokens")
        c0 == Get(usage, "completion_tokens")
        t0 == Get(usage, "total_tokens")
        responsesStyle == IsNone(p0) /\ IsNone(c0) /\ IsNone(t0)
        prompt_tokens == IF responsesStyle THEN Get(usage, "input_tokens") ELSE p0
        completion_tokens == IF responsesStyle THEN Get(usage, "output_tokens") ELSE c0
        total_tokens == t0
        input_tokens == ToInt(prompt_tokens)
        output_tokens == ToInt(completion_tokens)
        total_tokens_value == IF IsNone(total_tokens)
                              THEN input_tokens + output_tokens
                              ELSE ToInt(total_tokens)
    IN  [input_tokens |-> input_tokens, output_tokens |-> output_tokens,
         total_tokens |-> total_tokens_value]

\* a normalisation that returns the record whatever its counts
ExtractUsageDict_ZerosKept(usage) ==
    IF ~IsDict(usage) THEN NoUsage
    ELSE LET c == NormalizedCounts(usage)
         IN  UsageRec(c.input_tokens, c.output_tokens, c.total_tokens)

ExtractUsageDict(usage) ==
    IF ~IsDict(usage) THEN NoUsage
    ELSE LET c == NormalizedCounts(usage)
         IN IF c.input_tokens = 0 /\ c.output_tokens = 0 /\ c.total_tokens = 0
            THEN NoUsage
            ELSE UsageRec(c.input_tokens, c.output_tokens, c.total_tokens)

\* getattr(response.usage, name, 0) or 0, over a usage object whose fields hold an
\* int or None
AttrOrZero(usage, name) == ToInt(Get(usage, name))

\* _extract_usage: {} when the response has no usage, else the three attributes of
\* the chat-completions schema as they are
ExtractUsage(usage) ==
    IF ~IsDict(usage) THEN NoUsage
    ELSE UsageRec(AttrOrZero(usage, "prompt_tokens"), AttrOrZero(usage, "completion_tokens"),
                  AttrOrZero(usage, "total_tokens"))

(***************************************************************************)
(* SSE lines.  A line is its text after strip(): head is the prefix the    *)
(* code tests with startswith ("" for a line that strips to nothing),      *)
(* words the words of a comment, raw the class of the text after "data:"   *)
(* ("[DONE]", text json.loads rejects, or text it decodes to val).         *)
(***************************************************************************)
Line(head, words, raw, val) == [head |-> head, words |-> words, raw |-> raw, val |-> val]

DataLine(val) == Line("data:", <<>>, "json", val)

\* Two text fragments, standing for "hi" and " there"
Tok1 == <<"h", "i">>

Tok2 == <<" ", "t">>

BlankLine == Line("", <<>>, "", Null)

KeepAliveLine == Line(":", <<"OPENROUTER", "PROCESSING">>, "", Null)

\* a comment that names only one of the two keep-alive words
HalfCommentLine == Line(":", <<"openrouter", "ping">>, "", Null)

EventLine == Line("event:", <<"message">>, "", Null)

DoneLine == Line("data:", <<>>, "[DONE]", Null)

InvalidJsonLine == Line("data:", <<>>, "invalid", Null)

ErrorObjLine == DataLine(Dict([error |-> Dict([message |-> Str(<<"x">>)])]))

NonDictLine == DataLine(Num(5))

\* a chunk whose "error" entry is null
NullErrorLine ==
    DataLine(Dict([error |-> Null,
                   choices |-> List(<<Dict([delta |-> Dict([content |-> Str(Tok1)])])>>)]))

ChatDelta1Line ==
    DataLine(Dict([id |-> Str(<<"g">>),
                   choices |-> List(<<Dict([delta |-> Dict([content |-> Str(Tok1)])])>>),
                   usage |-> Dict([prompt_tokens |-> Num(3), completion_tokens |-> Num(5)])]))

ChatDelta2Line ==
    DataLine(Dict([choices |-> List(<<Num(0), Dict([delta |-> Dict([content |-> Str(Tok2)])])>>),
                   usage |-> Dict([input_tokens |-> Num(1), output_tokens |-> Num(2)])]))

\* a chunk without text: a role-only delta, an empty token, an all-zero usage block
ChatNoTextLine ==
    DataLine(Dict([choices |-> List(<<Dict([delta |-> Dict([role |-> Str(<<"a">>)])]),
                                      Dict([delta |-> Dict([content |-> Str(<<>>)]),
                                            finish_reason |-> Str(<<"s">>)])>>),
                   usage |-> Dict([prompt_tokens |-> Num(0), completion_tokens |-> Num(0)])]))

RespDelta1Line == DataLine(Dict([type |-> Str(<<"response.output_text.delta">>), delta |-> Str(Tok1)]))

OutputText(s) == Dict([type |-> Str(<<"output_text">>), text |-> Str(s)])

\* response.completed whose output holds two output_text entries and one other entry
RespCompletedLine ==
    DataLine(Dict([type |-> Str(<<"response.completed">>),
                   response |-> Dict([id |-> Str(<<"r">>),
                                      usage |-> Dict([input_tokens |-> Num(3), output_tokens |-> Num(5),
                                                      total_tokens |-> Num(8)]),
                                      output |-> List(<<Dict([content |-> List(<<OutputText(Tok2),
                                                                                  Dict([type |-> Str(<<"refusal">>),
                                                                                        text |-> Str(<<"n">>)]),
                                                                                  OutputText(Tok1)>>)])>>)])]))

\* response.completed whose output list holds no output_text entry
RespCompletedEmptyLine ==
    DataLine(Dict([type |-> Str(<<"response.completed">>),
                   response |-> Dict([output |-> List(<<Dict([content |-> List(<<>>)])>>)])]))

RespFailedLine == DataLine(Dict([type |-> Str(<<"response.failed">>)]))

ChatLines ==
    << BlankLine, KeepAliveLine, DoneLine, InvalidJsonLine, ErrorObjLine, NullErrorLine,
       ChatDelta1Line, ChatDelta2Line, ChatNoTextLine >>

ResponsesLines ==
    << BlankLine, HalfCommentLine, EventLine, KeepAliveLine, DoneLine, InvalidJsonLine,
       ErrorObjLine, NonDictLine, RespDelta1Line, RespCompletedLine, RespCompletedEmptyLine,
       RespFailedLine >>

LinesOf(sh) == IF sh = "chat_completions" THEN ChatLines ELSE ResponsesLines

\* str.upper() on the words the lines use
Upper(w) ==
    CASE w = "openrouter" -> "OPENROUTER"
      [] w = "processing" -> "PROCESSING"
      [] w = "ping"       -> "PING"
      [] w = "message"    -> "MESSAGE"
      [] OTHER            -> w

\* W in stripped.upper()
UpperContains(line, W) == \E i \in 1..Len(line.words) : Upper(line.words[i]) = W

StartsWith(line, prefix) == line.head = prefix

\* not line / not stripped
StripsToNothing(line) == line.head = ""

(***************************************************************************)
(* Bounds of the stream model.                                             *)
(***************************************************************************)
\* lines the server may send on one stream
MaxLines == 4

\* largest first-activity timeout tried, in clock ticks
MaxTimeout == 2

\* ticks the clock may run past the largest timeout
MaxOverrun == 1

MaxTime == MaxTimeout + MaxOverrun

HTTP_ERROR_STATUS == 400

BODY_LIMIT == 2000

\* 399 and 400 lie on either side of the error threshold
Statuses == {399, 400, 503}

BodyLens == {0, 2000, 2001}

VARIABLES
    shape,              \* "chat_completions" or "responses"
    status_code,        \* response.status_code, 0 before the response arrives
    timeout_sec,        \* the configured first-activity timeout
    sstate,             \* IDLE, AWAITING_FIRST_ACTIVITY, STREAMING, COMPLETED, FAILED, TIMED_OUT
    now,                \* time.monotonic() since the stream opened
    deadline,           \* deadline of the first-activity wait
    received,           \* every line the server has delivered so far, in order
    replay,             \* lines _iter_with_first yields before reading the stream again
    content_parts,      \* chat completions: the tokens collected
    output_parts,       \* responses: the delta texts collected
    completed_response, \* responses: the response object of response.completed, or Null
    usage,              \* the running usage snapshot
    closed,             \* the byte stream of the response has been closed
    result,             \* the ModelResponse returned
    error               \* the exception raised

streamVars == << shape, status_code, timeout_sec, sstate, now, deadline, received, replay, content_parts,
                 output_parts, completed_response, usage, closed, result, error >>

VARIABLES
    site,               \* the call site of the retry loop: "chat_completions" or "responses"
    rphase,             \* idle, rejected, attempting, sleeping, returned, failed
    attempt_counter,    \* attempt_counter["value"]
    attempt_index,      \* the loop index of the retry loop, from 0
    errors,             \* the exception of every failed attempt, in order
    slept,              \* the delays slept so far, in order
    failure             \* the aggregated failure raised to the caller

retryVars == << site, rphase, attempt_counter, attempt_index, errors, slept, failure >>

VARIABLES
    env_allowed,          \* the entries of OPENROUTER_ALLOWED_MODELS, as configured
    constructed,          \* the provider instance has been constructed
    allowed_models,       \* self.allowed_models: None, or the set of lowercase entries
    allowed_alias_cache,  \* self._allowed_alias_cache
    alias_cache,          \* self._alias_cache
    last_check,           \* the last allow-list check: the request and its outcome
    last_resolve          \* the last _resolve_model_name call: the name and what it returned

allowVars == << env_allowed, constructed, allowed_models, allowed_alias_cache, alias_cache,
                last_check, last_resolve >>

VARIABLES
    clock,                    \* time.time()
    ticks,                    \* how often the clock has advanced
    models_api_cache,         \* OpenRouterProvider._models_api_cache: None or the index
    models_api_last_fetch,    \* _models_api_last_fetch, NoTime for None
    models_api_last_failure,  \* _models_api_last_failure, NoTime for None
    models_api_lock,          \* the thread holding _models_api_lock, 0 when free
    tpc,                      \* per thread: idle, waiting (for the lock), fetching,
                              \* stored_cache, stored_fetch (between the assignments)
    tnow,                     \* per thread: the now its lookup read
    tmodel,                   \* per thread: the model its lookup is for
    tresult,                  \* per thread: what its last lookup returned
    twaited,                  \* per thread: the time of the fetch that succeeded while its
                              \* lookup was waiting for the lock, NoTime if none did
    lookups,                  \* lookups started so far
    fetch_log                 \* every network fetch made: the fetching lookup's now, the outcome

catalogVars == << clock, ticks, models_api_cache, models_api_last_fetch, models_api_last_failure,
                  models_api_lock, tpc, tnow, tmodel, tresult, twaited, lookups,
                    fetch_log >>

VARIABLES
    wall,                   \* the wall clock of the call-timeout guard
    call_timeout_sec,       \* the configured overall deadline of one call
    initialized_providers,  \* the registry's cached instance per provider type, 0 for none
    instance_count,         \* provider instances constructed so far
    calls_started,          \* guarded calls started so far
    hpc,                    \* per host: idle, ready (provider from the registry), cached
                            \* (provider from its ModelContext), awaiting (in the guard)
    hprovider,              \* per host: the provider instance it obtained
    htype,                  \* per host: the provider type it asked for
    hdeadline,              \* per host: the deadline of its guarded call
    houtcome,               \* per host: how its last guarded call ended
    hended,                 \* per host: when its last guarded call ended
    workers                 \* the underlying provider calls still running

guardVars == << wall, call_timeout_sec, initialized_providers, instance_count, calls_started,
                hpc, hprovider, htype, hdeadline, houtcome, hended, workers >>

VARIABLES
    usage_block,            \* the usage value last handed to _extract_usage_dict
    usage_result,           \* what _extract_usage_dict returned for it
    usage_plain,            \* what _extract_usage returned for a response with that usage
    usage_done              \* whether _extract_usage_dict has been called

usageVars == << usage_block, usage_result, usage_plain, usage_done >>

VARIABLES
    model_context_window,             \* capabilities.model_context_window of the model, 0 before any context
    preferred_response_tokens,  \* per ModelContext: _preferred_response_tokens, NoReserve for None
    token_allocation,           \* per ModelContext: _token_allocation
    token_allocation_key,       \* per ModelContext: _token_allocation_key
    budget_ops                  \* budgeting calls made so far

budgetVars == << model_context_window, preferred_response_tokens, token_allocation,
                 token_allocation_key, budget_ops >>

nonStreamVars == << retryVars, allowVars, catalogVars, guardVars, usageVars, budgetVars >>

nonRetryVars == << streamVars, allowVars, catalogVars, guardVars, usageVars, budgetVars >>

nonAllowVars == << streamVars, retryVars, catalogVars, guardVars, usageVars, budgetVars >>

nonCatalogVars == << streamVars, retryVars, allowVars, guardVars, usageVars, budgetVars >>

nonGuardVars == << streamVars, retryVars, allowVars, catalogVars, usageVars, budgetVars >>

nonGenerateVars == << streamVars, catalogVars, guardVars, usageVars, budgetVars >>

nonUsageVars == << streamVars, retryVars, allowVars, catalogVars, guardVars, budgetVars >>

nonBudgetVars == << streamVars, retryVars, allowVars, catalogVars, guardVars, usageVars >>

NoError == [kind |-> "none", timeout |-> 0, body |-> 0, detail |-> Null]

NoResult == [present |-> FALSE, content |-> <<>>, usage |-> NoUsage]

ModelResponse(content, u) == [present |-> TRUE, content |-> content, usage |-> u]

\* TimeoutError of the first-activity wait; both messages print timeout_sec
FirstActivityTimeoutError(t) ==
    [kind |-> "first_activity_timeout", timeout |-> t, body |-> 0, detail |-> Null]

\* a stream-end error that does not print the timeout
StreamEndedError_Unnamed(t) ==
    [kind |-> "first_activity_timeout", timeout |-> 0, body |-> 0,
     detail |-> Str(<< "ended before first activity" >>)]

\* TimeoutError("OpenRouter streaming ended before first activity after {timeout_sec}s ...")
StreamEndedError(t) ==
    [kind |-> "first_activity_timeout", timeout |-> t, body |-> 0,
     detail |-> Str(<< "ended before first activity" >>)]

\* an error that carries the whole body
HttpStatusError_WholeBody(bodyLen) ==
    [kind |-> "http_status", timeout |-> 0, body |-> bodyLen, detail |-> Null]

\* RuntimeError carrying body[:2000]
HttpStatusError(bodyLen) ==
    [kind |-> "http_status", timeout |-> 0,
     body |-> IF bodyLen > BODY_LIMIT THEN BODY_LIMIT ELSE bodyLen, detail |-> Null]

StreamError(kind) == [kind |-> kind, timeout |-> 0, body |-> 0, detail |-> Null]

\* RuntimeError(f"OpenRouter streaming error: {payload.get('error')}")
InBandError(err) == [kind |-> "in_band_error", timeout |-> 0, body |-> 0, detail |-> err]

\* an error test that never finds one
HasError_Never(payload) == FALSE

\* isinstance(payload, dict) and payload.get("error")
HasError(payload) == IsDict(payload) /\ Truthy(Get(payload, "error"))

\* the deadline test with the boundary instant left out
Expired_StrictlyPast(n, d) == d - n < 0

\* remaining = deadline - time.monotonic(); remaining <= 0
Expired(n, d) == d - n <= 0

\* a wait that any comment line ends
IsFirstActivity_AnyComment(line) ==
    /\ ~StripsToNothing(line)
    /\ (StartsWith(line, "data:") \/ StartsWith(line, ":"))

\* a line that ends the first-activity wait
IsFirstActivity(line) ==
    /\ ~StripsToNothing(line)
    /\ \/ StartsWith(line, "data:")
       \/ StartsWith(line, ":") /\ UpperContains(line, "OPENROUTER") /\ UpperContains(line, "PROCESSING")

\* a deadline that is also applied to the lines after first activity
DeadlineApplies_EveryLine(state) == state \in {"AWAITING_FIRST_ACTIVITY", "STREAMING"}

\* the wait runs once, before the loop; the loop reads _iter_with_first with no deadline
DeadlineApplies(state) == state = "AWAITING_FIRST_ACTIVITY"

\* a loop that fails when the stream ends without its terminating event
StateAfterStreamEnd_Truncated(sh) == "FAILED"

\* async for ... ends with the stream: the code after the loop builds the response
StateAfterStreamEnd(sh) == "COMPLETED"

\* an iterator that drops the captured line
IterWithFirst_Dropped(first) == << >>

\* _iter_with_first: the captured line is replayed before the stream is read again
IterWithFirst(first) == << first >>

\* a close that runs only after a normal return
CloseOnExit_ReturnOnly(how) == how = "return"

\* async with client.stream(...): the response is closed when the block is left,
\* by a return or by an exception alike
CloseOnExit(how) == TRUE

\* the tokens one chunk's choices carry
RECURSIVE ChoiceTokens(_)
ChoiceTokens(choices) ==
    IF choices = <<>> THEN <<>>
    ELSE LET choice == Head(choices)
             delta == IF IsDict(choice) THEN Get(choice, "delta") ELSE Null
             token == IF IsDict(delta) THEN Get(delta, "content") ELSE Null
         IN (IF IsStr(token) /\ Truthy(token) THEN << token.v >> ELSE <<>>)
            \o ChoiceTokens(Tail(choices))

\* One pass of the chat-completions loop body over a line.
ChatStep(parts, u, line) ==
    LET keep == [ctl |-> "continue", parts |-> parts, usage |-> u, err |-> NoError]
    IN  IF StripsToNothing(line) THEN keep
        ELSE IF StartsWith(line, ":") THEN keep
        ELSE IF ~StartsWith(line, "data:") THEN keep
        ELSE IF line.raw = "[DONE]" THEN [keep EXCEPT !.ctl = "break"]
        ELSE IF line.raw = "invalid" THEN [keep EXCEPT !.ctl = "raise", !.err = StreamError("invalid_json")]
        ELSE LET payload == line.val
             IN  IF HasError(payload)
                 THEN [keep EXCEPT !.ctl = "raise", !.err = InBandError(Get(payload, "error"))]
                 ELSE IF ~IsDict(payload) THEN keep
                 ELSE LET extracted == ExtractUsageDict(Get(payload, "usage"))
                          choices == Get(payload, "choices")
                      IN  [keep EXCEPT
                             !.usage = IF extracted.present THEN extracted ELSE u,
                             !.parts = IF IsList(choices) THEN parts \o ChoiceTokens(choices.v)
                                       ELSE parts]

IsType(event_type, name) == IsStr(event_type) /\ event_type.v = << name >>

\* One pass of the responses loop body over a line.
ResponsesStep(parts, u, line) ==
    LET keep == [ctl |-> "continue", parts |-> parts, usage |-> u, err |-> NoError,
                 completed |-> Null]
    IN  IF StripsToNothing(line) THEN keep
        ELSE IF StartsWith(line, ":") THEN keep
        ELSE IF ~StartsWith(line, "data:") THEN keep
        ELSE IF line.raw = "[DONE]" THEN [keep EXCEPT !.ctl = "break"]
        ELSE IF line.raw = "invalid" THEN [keep EXCEPT !.ctl = "raise", !.err = StreamError("invalid_json")]
        ELSE LET event == line.val
             IN  IF HasError(event)
                 THEN [keep EXCEPT !.ctl = "raise", !.err = InBandError(Get(event, "error"))]
                 ELSE IF ~IsDict(event) THEN keep
                 ELSE LET event_type == Get(event, "type")
                          response_obj == Get(event, "response")
                          extracted == IF IsDict(response_obj)
                                       THEN ExtractUsageDict(Get(response_obj, "usage"))
                                       ELSE NoUsage
                          u2 == IF extracted.present THEN extracted ELSE u
                          delta == Get(event, "delta")
                          parts2 == IF IsType(event_type, "response.output_text.delta")
                                       /\ IsStr(delta) /\ Truthy(delta)
                                    THEN Append(parts, delta.v) ELSE parts
                      IN  IF IsType(event_type, "response.completed") /\ IsDict(response_obj)
                          THEN [keep EXCEPT !.ctl = "break", !.parts = parts2, !.usage = u2,
                                            !.completed = response_obj]
                          ELSE IF IsType(event_type, "response.failed")
                                  \/ IsType(event_type, "response.error")
                          THEN [keep EXCEPT !.ctl = "raise", !.parts = parts2, !.usage = u2,
                                            !.err = StreamError("failed_event")]
                          ELSE [keep EXCEPT !.parts = parts2, !.usage = u2]

\* the output_text texts of one output item's content list
RECURSIVE ContentTexts(_)
ContentTexts(content) ==
    IF content = <<>> THEN <<>>
    ELSE LET content_item == Head(content)
             ty == IF IsDict(content_item) THEN Get(content_item, "type") ELSE Null
             text == IF IsDict(content_item) THEN Get(content_item, "text") ELSE Null
         IN (IF IsType(ty, "output_text") /\ IsStr(text) THEN << text.v >> ELSE <<>>)
            \o ContentTexts(Tail(content))

RECURSIVE OutputTexts(_)
OutputTexts(output) ==
    IF output = <<>> THEN <<>>
    ELSE LET item == Head(output)
             content == IF IsDict(item) THEN Get(item, "content") ELSE Null
         IN (IF IsList(content) THEN ContentTexts(content.v) ELSE <<>>)
            \o OutputTexts(Tail(output))

ExtractOutputTextFromResponsesPayload(response_payload) ==
    LET output == Get(response_payload, "output")
    IN  IF ~IsList(output) THEN <<>> ELSE Join(OutputTexts(output.v))

\* the content of the responses ModelResponse, computed after the loop
ResponsesContent(completed, parts) ==
    LET content == IF ~IsNone(completed)
                   THEN ExtractOutputTextFromResponsesPayload(completed)
                   ELSE <<>>
    IN  IF content = <<>> THEN Join(parts) ELSE content

StreamInit ==
    /\ shape = "chat_completions"
    /\ status_code = 0
    /\ timeout_sec = 0
    /\ sstate = "IDLE"
    /\ now = 0
    /\ deadline = 0
    /\ received = <<>>
    /\ replay = <<>>
    /\ content_parts = <<>>
    /\ output_parts = <<>>
    /\ completed_response = Null
    /\ usage = NoUsage
    /\ closed = FALSE
    /\ result = NoResult
    /\ error = NoError

\* The request is sent and the response headers arrive: a status >= 400 raises at once,
\* otherwise the first-activity wait starts and fixes its deadline.
StreamOpen(sh, t, status, bodyLen) ==
    /\ sstate = "IDLE"
    /\ shape' = sh
    /\ status_code' = status
    /\ timeout_sec' = t
    /\ IF status >= HTTP_ERROR_STATUS
       THEN /\ sstate' = "FAILED"
            /\ error' = HttpStatusError(bodyLen)
            /\ closed' = CloseOnExit("raise")
            /\ UNCHANGED deadline
       ELSE /\ sstate' = "AWAITING_FIRST_ACTIVITY"
            /\ deadline' = now + t
            /\ UNCHANGED << error, closed >>
    /\ UNCHANGED << now, received, replay, content_parts, output_parts, completed_response,
                    usage, result >>
    /\ UNCHANGED nonStreamVars

\* Time passes while the call is suspended on the stream.
Tick ==
    /\ sstate \in {"AWAITING_FIRST_ACTIVITY", "STREAMING"}
    /\ now < MaxTime
    /\ now' = now + 1
    /\ UNCHANGED << shape, status_code, timeout_sec, sstate, deadline, received, replay, content_parts,
                    output_parts, completed_response, usage, closed, result, error >>
    /\ UNCHANGED nonStreamVars

\* The deadline is reached with no qualifying line: remaining <= 0, or wait_for times out.
AwaitTimeout ==
    /\ DeadlineApplies(sstate)
    /\ Expired(now, deadline)
    /\ sstate' = "TIMED_OUT"
    /\ error' = FirstActivityTimeoutError(timeout_sec)
    /\ closed' = CloseOnExit("raise")
    /\ UNCHANGED << shape, status_code, timeout_sec, now, deadline, received, replay, content_parts,
                    output_parts, completed_response, usage, result >>
    /\ UNCHANGED nonStreamVars

\* The stream ends before any qualifying line (StopAsyncIteration).
AwaitStreamEnd ==
    /\ sstate = "AWAITING_FIRST_ACTIVITY"
    /\ ~Expired(now, deadline)
    /\ sstate' = "TIMED_OUT"
    /\ error' = StreamEndedError(timeout_sec)
    /\ closed' = CloseOnExit("raise")
    /\ UNCHANGED << shape, status_code, timeout_sec, now, deadline, received, replay, content_parts,
                    output_parts, completed_response, usage, result >>
    /\ UNCHANGED nonStreamVars

\* A line arrives before the deadline: a qualifying one ends the wait and is handed to
\* _iter_with_first, any other is skipped.
AwaitLine(i) ==
    /\ sstate = "AWAITING_FIRST_ACTIVITY"
    /\ ~Expired(now, deadline)
    /\ Len(received) < MaxLines
    /\ LET line == LinesOf(shape)[i]
       IN  /\ received' = Append(received, line)
           /\ IF IsFirstActivity(line)
              THEN /\ sstate' = "STREAMING"
                   /\ replay' = IterWithFirst(line)
              ELSE UNCHANGED << sstate, replay >>
    /\ UNCHANGED << shape, status_code, timeout_sec, now, deadline, content_parts, output_parts,
                    completed_response, usage, closed, result, error >>
    /\ UNCHANGED nonStreamVars

\* The loop ran to its end (break, or the stream ended): the ModelResponse is built
\* and returned.
Finish(parts, u, completed) ==
    /\ sstate' = "COMPLETED"
    /\ result' = IF shape = "chat_completions"
                 THEN ModelResponse(Join(parts), u)
                 ELSE ModelResponse(ResponsesContent(completed, parts), u)
    /\ closed' = CloseOnExit("return")
    /\ UNCHANGED error

\* The loop body runs over one line.
Process(line) ==
    IF shape = "chat_completions"
    THEN LET r == ChatStep(content_parts, usage, line)
         IN  /\ content_parts' = r.parts
             /\ usage' = r.usage
             /\ UNCHANGED << output_parts, completed_response >>
             /\ CASE r.ctl = "continue" -> UNCHANGED << sstate, result, closed, error >>
                  [] r.ctl = "break"    -> Finish(r.parts, r.usage, Null)
                  [] OTHER              -> /\ sstate' = "FAILED"
                                           /\ error' = r.err
                                           /\ closed' = CloseOnExit("raise")
                                           /\ UNCHANGED result
    ELSE LET r == ResponsesStep(output_parts, usage, line)
         IN  /\ output_parts' = r.parts
             /\ usage' = r.usage
             /\ completed_response' = r.completed
             /\ UNCHANGED content_parts
             /\ CASE r.ctl = "continue" -> UNCHANGED << sstate, result, closed, error >>
                  [] r.ctl = "break"    -> Finish(r.parts, r.usage, r.completed)
                  [] OTHER              -> /\ sstate' = "FAILED"
                                           /\ error' = r.err
                                           /\ closed' = CloseOnExit("raise")
                                           /\ UNCHANGED result

\* The captured first line is yielded to the loop.
StreamReplay ==
    /\ sstate = "STREAMING"
    /\ replay # <<>>
    /\ replay' = Tail(replay)
    /\ Process(Head(replay))
    /\ UNCHANGED << shape, status_code, timeout_sec, now, deadline, received >>
    /\ UNCHANGED nonStreamVars

\* The next line of the stream is yielded to the loop.
StreamLine(i) ==
    /\ sstate = "STREAMING"
    /\ replay = <<>>
    /\ Len(received) < MaxLines
    /\ received' = Append(received, LinesOf(shape)[i])
    /\ Process(LinesOf(shape)[i])
    /\ UNCHANGED << shape, status_code, timeout_sec, now, deadline, replay >>
    /\ UNCHANGED nonStreamVars

\* The stream ends after first activity: the loop falls through.
StreamEnd ==
    /\ sstate = "STREAMING"
    /\ replay = <<>>
    /\ IF StateAfterStreamEnd(shape) = "COMPLETED"
       THEN Finish(IF shape = "chat_completions" THEN content_parts ELSE output_parts,
                   usage, completed_response)
       ELSE /\ sstate' = StateAfterStreamEnd(shape)
            /\ error' = StreamError("truncated")
            /\ closed' = CloseOnExit("raise")
            /\ UNCHANGED result
    /\ UNCHANGED << shape, status_code, timeout_sec, now, deadline, received, replay, content_parts,
                    output_parts, completed_response, usage >>
    /\ UNCHANGED nonStreamVars

StreamNext ==
    \/ \E sh \in {"chat_completions", "responses"}, t \in 1..MaxTimeout,
          status \in Statuses, bodyLen \in BodyLens : StreamOpen(sh, t, status, bodyLen)
    \/ Tick
    \/ AwaitTimeout
    \/ AwaitStreamEnd
    \/ \E i \in 1..Len(LinesOf(shape)) : AwaitLine(i)
    \/ StreamReplay
    \/ \E i \in 1..Len(LinesOf(shape)) : StreamLine(i)
    \/ StreamEnd

(***************************************************************************)
(* Error classification (_is_error_retryable).  An exception is described  *)
(* by what the classifier reads of it:                                     *)
(*   has429     "429" occurs in str(error).lower()                         *)
(*   braces     what the text from the first "{" to the last "}" is:       *)
(*              "none" (no such text), "dict" (it evaluates to a dict      *)
(*              whose "error" entry, if any, is a dict), "unparseable"     *)
(*              (neither literal_eval nor json.loads accepts it)           *)
(*   etype, ecode   the "type" and "code" of that dict's "error" entry,    *)
(*              "" for None                                                *)
(*   sdk        the exception has response.json() (an SDK exception)       *)
(*   rtype, rcode   the "type" and "code" of the "error" entry it returns  *)
(*   indicator  a retryable indicator word occurs in the lowercased text   *)
(***************************************************************************)
ErrorOf(has429, braces, etype, ecode, sdk, rtype, rcode, indicator) ==
    [has429 |-> has429, braces |-> braces, etype |-> etype, ecode |-> ecode,
     sdk |-> sdk, rtype |-> rtype, rcode |-> rcode, indicator |-> indicator]

\* "Error code: 429 - {'error': {'type': 'tokens', 'code': 'rate_limit_exceeded'}}"
Tokens429 == ErrorOf(TRUE, "dict", "tokens", "rate_limit_exceeded", FALSE, "", "", FALSE)

\* the same with a retryable indicator word in the text
Tokens429Timeout == ErrorOf(TRUE, "dict", "tokens", "", FALSE, "", "", TRUE)

\* "Error code: 429" with no payload
Plain429 == ErrorOf(TRUE, "none", "", "", FALSE, "", "", FALSE)

\* a 429 whose payload carries an "error" entry without type and code
Bare429 == ErrorOf(TRUE, "dict", "", "", FALSE, "", "", FALSE)

Requests429 == ErrorOf(TRUE, "dict", "requests", "rate_limit_exceeded", FALSE, "", "", FALSE)

ContextLength429 == ErrorOf(TRUE, "dict", "requests", "context_length_exceeded", FALSE, "", "", FALSE)

\* a 429 whose braces do not parse, raised by the SDK with a decodable response
Sdk429 == ErrorOf(TRUE, "unparseable", "", "", TRUE, "tokens", "", FALSE)

\* "503 Service Unavailable"
Unavailable503 == ErrorOf(FALSE, "none", "", "", FALSE, "", "", TRUE)

\* "401 Unauthorized"
Unauthorized401 == ErrorOf(FALSE, "none", "", "", FALSE, "", "", FALSE)

\* a first-activity timeout, in seconds, whose printed value holds "429"
TIMEOUT_429 == 429

\* a message that does not name OPENROUTER_PROCESSING_TIMEOUT
ClassifierView_NoIndicator(err) ==
    ErrorOf(err.timeout = TIMEOUT_429, "none", "", "", FALSE, "", "", FALSE)

\* What the classifier reads of a first-activity TimeoutError: its text,
\* "... first activity after {timeout_sec}s (OPENROUTER_PROCESSING_TIMEOUT={timeout_sec}).",
\* holds no braces, holds "timeout" once lowered, and holds "429" only when the
\* printed timeout does; a TimeoutError has no response attribute.
ClassifierView(err) ==
    ErrorOf(err.timeout = TIMEOUT_429, "none", "", "", FALSE, "", "",
            err.kind = "first_activity_timeout")

AttemptErrors ==
    << Tokens429, Tokens429Timeout, Plain429, Bare429, Requests429, ContextLength429,
       Sdk429, Unavailable503, Unauthorized401,
       ClassifierView(FirstActivityTimeoutError(MaxTimeout)),
       ClassifierView(StreamEndedError(TIMEOUT_429)) >>

\* error_type and error_code after the structured parse and its fallback
StructuredInfo(e) ==
    CASE e.braces = "dict" -> [type |-> e.etype, code |-> e.ecode]
      [] e.braces = "unparseable" /\ e.sdk -> [type |-> e.rtype, code |-> e.rcode]
      [] OTHER -> [type |-> "", code |-> ""]

\* a classifier that tests the indicator words before the 429 branch
IsErrorRetryable_IndicatorsFirst(e) ==
    \/ e.indicator
    \/ e.has429 /\ StructuredInfo(e).type # "tokens"
                /\ StructuredInfo(e).code \notin {"invalid_request_error", "context_length_exceeded"}

\* a classifier that treats every 429 without a recognised code as permanent
IsErrorRetryable_Plain429Fatal(e) ==
    IF e.has429
    THEN StructuredInfo(e).type # "tokens" /\ StructuredInfo(e).code = "rate_limit_exceeded"
    ELSE e.indicator

IsErrorRetryable(e) ==
    IF e.has429
    THEN LET info == StructuredInfo(e)
         IN  IF info.type = "tokens" THEN FALSE
             ELSE IF info.code \in {"invalid_request_error", "context_length_exceeded"} THEN FALSE
             ELSE TRUE
    ELSE e.indicator

(***************************************************************************)
(* The retry loop.  generate_content and _generate_with_responses_endpoint *)
(* both call _run_with_retries with max_attempts = 4 and the delays        *)
(* [1, 3, 5, 8], and wrap what it raises in one RuntimeError.              *)
(***************************************************************************)
MAX_RETRIES_CHAT == 4

MAX_RETRIES_RESPONSES == 4

MaxRetries(s) == IF s = "chat_completions" THEN MAX_RETRIES_CHAT ELSE MAX_RETRIES_RESPONSES

RetryDelays(s) == << 1, 3, 5, 8 >>

NoFailure == [present |-> FALSE, attempts |-> 0, last |-> Unauthorized401]

\* a count that is always the configured number of attempts
AggregatedFailure_ConfiguredCount(counter, exc) ==
    [present |-> TRUE, attempts |-> MAX_RETRIES_CHAT, last |-> exc]

\* attempts = max(attempt_counter["value"], 1); the message ends with str(exc)
AggregatedFailure(counter, exc) ==
    [present |-> TRUE, attempts |-> IF counter > 1 THEN counter ELSE 1, last |-> exc]

\* a loop that goes on after a non-retryable failure
StopsLoop_OnlyWhenSpent(retryable, attempt, max_attempts) == attempt >= max_attempts

\* a loop that goes on after its last attempt
StopsLoop_OnlyWhenFatal(retryable, attempt, max_attempts) == ~retryable

\* The failure of attempt number `attempt` ends the loop: the classifier calls it
\* non-retryable, or it was the last attempt.
StopsLoop(retryable, attempt, max_attempts) == ~retryable \/ attempt >= max_attempts

\* a responses call site that turns to chat/completions when its loop has failed
AfterLoopFailure_FallsBack(s) ==
    IF s = "responses" THEN [phase |-> "attempting", site |-> "chat_completions"]
    ELSE [phase |-> "failed", site |-> s]

\* except Exception as exc: raise RuntimeError(error_msg) from exc, at either call
\* site; generate_content returns what _generate_with_responses_endpoint returns
AfterLoopFailure(s) == [phase |-> "failed", site |-> s]

RetryInit ==
    /\ site = "chat_completions"
    /\ rphase = "idle"
    /\ attempt_counter = 0
    /\ attempt_index = 0
    /\ errors = << >>
    /\ slept = << >>
    /\ failure = NoFailure

\* The call reaches its retry loop; the first attempt starts with no sleep.
RetryStart(s) ==
    /\ rphase = "idle"
    /\ site' = s
    /\ rphase' = "attempting"
    /\ UNCHANGED << attempt_counter, attempt_index, errors, slept, failure >>
    /\ UNCHANGED nonRetryVars

\* _attempt returns a ModelResponse: the loop returns it.
AttemptSucceeds ==
    /\ rphase = "attempting"
    /\ attempt_counter' = attempt_counter + 1
    /\ rphase' = "returned"
    /\ UNCHANGED << site, attempt_index, errors, slept, failure >>
    /\ UNCHANGED nonRetryVars

\* _attempt raises: a non-retryable error, or the failure of the last attempt, leaves
\* the loop and is wrapped; any other failure leads to the sleep before the next attempt.
AttemptFails(e) ==
    /\ rphase = "attempting"
    /\ attempt_counter' = attempt_counter + 1
    /\ errors' = Append(errors, e)
    /\ IF StopsLoop(IsErrorRetryable(e), attempt_index + 1, MaxRetries(site))
       THEN /\ rphase' = AfterLoopFailure(site).phase
            /\ site' = AfterLoopFailure(site).site
            /\ failure' = AggregatedFailure(attempt_counter + 1, e)
       ELSE /\ rphase' = "sleeping"
            /\ UNCHANGED << site, failure >>
    /\ UNCHANGED << attempt_index, slept >>
    /\ UNCHANGED nonRetryVars

\* time.sleep(delays[attempt_index]), then the next attempt starts.
Sleep ==
    /\ rphase = "sleeping"
    /\ slept' = Append(slept, RetryDelays(site)[attempt_index + 1])
    /\ attempt_index' = attempt_index + 1
    /\ rphase' = "attempting"
    /\ UNCHANGED << site, attempt_counter, errors, failure >>
    /\ UNCHANGED nonRetryVars

RetryNext ==
    \/ \E s \in {"chat_completions", "responses"} : RetryStart(s)
    \/ AttemptSucceeds
    \/ \E k \in 1..Len(AttemptErrors) : AttemptFails(AttemptErrors[k])
    \/ Sleep

(***************************************************************************)
(* Model names, the static registry and alias resolution.                  *)
(***************************************************************************)
Names == {"acme/Big", "acme/big", "ACME/BIG", "big", "BIG", "acme/small", "sm", "zed/x", "ZED/X"}

\* str.lower() on the names above; "" stays ""
Lower(n) ==
    CASE n \in {"acme/Big", "acme/big", "ACME/BIG"} -> "acme/big"
      [] n \in {"big", "BIG"}                        -> "big"
      [] n \in {"zed/x", "ZED/X"}                    -> "zed/x"
      [] OTHER                                       -> n

\* The registry file: canonical model names with their aliases.  resolve() matches
\* names and aliases case-insensitively and returns the canonical name, "" for None.
RegistryResolve(n) ==
    CASE Lower(n) \in {"acme/big", "big"}   -> "acme/Big"
      [] Lower(n) \in {"acme/small", "sm"}  -> "acme/small"
      [] OTHER                              -> ""

\* dict[key] = value
Put(d, k, val) == [x \in DOMAIN d \cup {k} |-> IF x = k THEN val ELSE d[x]]

\* dict.setdefault(key, value)
SetDefault(d, k, val) == IF k \in DOMAIN d THEN d ELSE Put(d, k, val)

EmptyDict == [x \in {} |-> ""]

\* _resolve_model_name: the resolved name and the alias cache it leaves
ResolveModelName(cache, model_name) ==
    LET cache_key == Lower(model_name)
        config == RegistryResolve(model_name)
    IN  IF cache_key \in DOMAIN cache
        THEN [resolved |-> cache[cache_key], cache |-> cache]
        ELSE IF config # ""
        THEN [resolved |-> config,
              cache |-> SetDefault(Put(cache, cache_key, config), Lower(config), config)]
        ELSE [resolved |-> model_name, cache |-> Put(cache, cache_key, model_name)]

(***************************************************************************)
(* The allow-list (_parse_allowed_models, _ensure_model_allowed).          *)
(***************************************************************************)
\* values of OPENROUTER_ALLOWED_MODELS, split at the commas and stripped
EnvSettings ==
    << << >>, << "" >>, << "BIG" >>, << "acme/big" >>, << "acme/small" >>,
       << "sm", "", "ZED/X" >>, << "zed/x", "big" >> >>

Unrestricted == [restricted |-> FALSE, names |-> {}]

\* _parse_allowed_models: the lowercase set of the non-empty entries, None when empty
ParseAllowedModels(entries) ==
    LET models == {Lower(entries[i]) : i \in {j \in 1..Len(entries) : entries[j] # ""}}
    IN  IF models # {} THEN [restricted |-> TRUE, names |-> models] ELSE Unrestricted

\* the orders in which list(self.allowed_models) may yield a set
OrdersOf(S) ==
    {o \in [1..Cardinality(S) -> S] : \A i, j \in 1..Cardinality(S) : i # j => o[i] # o[j]}

\* a comparison that keeps the resolved name's own letter-casing
NormalizeResolved_AsIs(resolved_name) == resolved_name

\* normalized_resolved = resolved_name.lower()
NormalizeResolved(resolved_name) == Lower(resolved_name)

\* a memo whose hit stands for "this entry allowed a model" and matches any canonical
MemoValue_AnyHit(cache, allowed_entry, canonical) == canonical

\* self._allowed_alias_cache.get(allowed_entry), for an entry that is memoised
MemoValue(cache, allowed_entry, canonical) == cache[allowed_entry]

\* The loop over the allow-list entries, from the entry order[1] on.
RECURSIVE AllowLoop(_, _, _)
AllowLoop(order, canonical, st) ==
    IF order = << >> THEN st
    ELSE LET allowed_entry == Head(order)
             memo == allowed_entry \in DOMAIN st.allowed_alias_cache
             r == ResolveModelName(st.alias_cache, allowed_entry)
             normalized_resolved == IF memo
                                    THEN MemoValue(st.allowed_alias_cache, allowed_entry, canonical)
                                    ELSE NormalizeResolved(r.resolved)
             st2 == IF memo THEN st
                    ELSE [st EXCEPT !.alias_cache = r.cache,
                                    !.allowed_alias_cache =
                                        Put(st.allowed_alias_cache, allowed_entry, normalized_resolved)]
         IN  IF normalized_resolved = canonical
             THEN [st2 EXCEPT !.allowed = TRUE,
                              !.allowed_alias_cache = Put(st2.allowed_alias_cache, canonical, canonical),
                              !.names = st2.names \cup {canonical}]
             ELSE AllowLoop(Tail(order), canonical, st2)

\* _ensure_model_allowed, for one iteration order of the allow-list
EnsureModelAllowed(order, canonical_name, requested_name, st) ==
    LET requested == Lower(requested_name)
        canonical == Lower(canonical_name)
    IN  IF requested \in st.names \/ canonical \in st.names
        THEN [st EXCEPT !.allowed = TRUE]
        ELSE AllowLoop(order, canonical, [st EXCEPT !.allowed = FALSE])

NoCheck == [done |-> FALSE, requested |-> "", canonical |-> "", allowed |-> FALSE]

NoResolve == [done |-> FALSE, model_name |-> "", resolved |-> ""]

AllowInit ==
    /\ env_allowed = << >>
    /\ constructed = FALSE
    /\ allowed_models = Unrestricted
    /\ allowed_alias_cache = EmptyDict
    /\ alias_cache = EmptyDict
    /\ last_check = NoCheck
    /\ last_resolve = NoResolve

\* OpenRouterProvider(api_key): the allow-list is read once from the environment.
Construct(k) ==
    /\ ~constructed
    /\ constructed' = TRUE
    /\ env_allowed' = EnvSettings[k]
    /\ allowed_models' = ParseAllowedModels(EnvSettings[k])
    /\ allowed_alias_cache' = EmptyDict
    /\ alias_cache' = EmptyDict
    /\ UNCHANGED << last_check, last_resolve >>
    /\ UNCHANGED nonAllowVars

\* Another caller resolves a name (generate_content, count_tokens).
ResolveCall(n) ==
    /\ constructed
    /\ alias_cache' = ResolveModelName(alias_cache, n).cache
    /\ last_resolve' = [done |-> TRUE, model_name |-> n,
                        resolved |-> ResolveModelName(alias_cache, n).resolved]
    /\ UNCHANGED << env_allowed, constructed, allowed_models, allowed_alias_cache, last_check >>
    /\ UNCHANGED nonAllowVars

\* A request for model n is checked: its canonical name is resolved, then
\* _ensure_model_allowed runs on the pair.
CheckModel(n) ==
    /\ constructed
    /\ LET r == ResolveModelName(alias_cache, n)
           st0 == [allowed |-> TRUE, names |-> allowed_models.names, alias_cache |-> r.cache,
                   allowed_alias_cache |-> allowed_alias_cache]
       IN  IF ~allowed_models.restricted
           THEN /\ alias_cache' = r.cache
                /\ last_check' = [done |-> TRUE, requested |-> n, canonical |-> r.resolved,
                                  allowed |-> TRUE]
                /\ UNCHANGED << allowed_models, allowed_alias_cache >>
           ELSE \E order \in OrdersOf(allowed_models.names) :
                   LET st == EnsureModelAllowed(order, r.resolved, n, st0)
                   IN  /\ alias_cache' = st.alias_cache
                       /\ allowed_alias_cache' = st.allowed_alias_cache
                       /\ allowed_models' = [allowed_models EXCEPT !.names = st.names]
                       /\ last_check' = [done |-> TRUE, requested |-> n, canonical |-> r.resolved,
                                         allowed |-> st.allowed]
    /\ UNCHANGED << env_allowed, constructed, last_resolve >>
    /\ UNCHANGED nonAllowVars

\* a call that goes on to its attempts whatever the validation said
EntersRetryLoop_Unvalidated(valid) == TRUE

\* if not self.validate_model_name(model_name): raise ValueError(...)
EntersRetryLoop(valid) == valid

\* generate_content(model_name = n) up to its retry loop: the model is validated
\* against the allow-list first; a rejected model raises ValueError there, an
\* accepted one reaches the retry loop of call site s, whose first attempt starts.
GenerateContent(n, s) ==
    /\ constructed
    /\ rphase = "idle"
    /\ LET r == ResolveModelName(alias_cache, n)
           st0 == [allowed |-> TRUE, names |-> allowed_models.names, alias_cache |-> r.cache,
                   allowed_alias_cache |-> allowed_alias_cache]
       IN  \E order \in OrdersOf(allowed_models.names) :
              LET st == IF allowed_models.restricted
                        THEN EnsureModelAllowed(order, r.resolved, n, st0)
                        ELSE st0
              IN  /\ alias_cache' = st.alias_cache
                  /\ allowed_alias_cache' = st.allowed_alias_cache
                  /\ allowed_models' = [allowed_models EXCEPT !.names = st.names]
                  /\ last_check' = [done |-> TRUE, requested |-> n, canonical |-> r.resolved,
                                    allowed |-> st.allowed]
                  /\ rphase' = IF EntersRetryLoop(st.allowed) THEN "attempting" ELSE "rejected"
    /\ site' = s
    /\ UNCHANGED << env_allowed, constructed, last_resolve >>
    /\ UNCHANGED << attempt_counter, attempt_index, errors, slept, failure >>
    /\ UNCHANGED nonGenerateVars

AllowNext ==
    \/ \E k \in 1..Len(EnvSettings) : Construct(k)
    \/ \E n \in Names : ResolveCall(n)
    \/ \E n \in Names : CheckModel(n)

(***************************************************************************)
(* The remote model catalog and capability lookup (OpenRouterProvider).    *)
(***************************************************************************)
MODELS_API_TTL_SEC == 86400

MODELS_API_FAILURE_COOLDOWN_SEC == 60

GENERIC_CONTEXT_WINDOW == 32768

\* lookups started in one run
MaxLookups == 3

\* clock advances in one run
MaxTicks == 2

\* the amounts by which the clock advances: 59 and 60 lie on either side of the
\* cooldown, 86341 and 59 + 86341 on either side of the TTL
ClockSteps == {59, 60, 86341}

Threads == {1, 2}

NoTime == -1

\* the model names looked up
LookupNames == {"acme/small", "acme/new", "acme/new:free", "plain:a/b"}

\* the whole name, variant suffix included
RsplitColon_WholeName(n) == n

\* name.rsplit(":", 1)[0]
RsplitColon(n) ==
    CASE n = "acme/new:free" -> "acme/new"
      [] n = "plain:a/b"     -> "plain"
      [] OTHER               -> n

HasColon(n) == n \in {"acme/new:free", "plain:a/b"}

\* "/" in name
HasSlash(n) == n \in {"acme/small", "acme/new", "acme/new:free", "plain:a/b"}

\* A record of the models API: id, canonical_slug, context_length (0 when absent),
\* top_provider.max_completion_tokens (NoTokens when absent), "tools" in
\* supported_parameters.
NoTokens == -1

ModelRecord(id, slug, ctx, maxc, tools) ==
    [id |-> id, canonical_slug |-> slug, context_length |-> ctx, max_completion_tokens |-> maxc,
     tools |-> tools]

RecNew == ModelRecord("acme/new", "acme/new-v1", 100000, 8192, TRUE)

\* a record whose id is another record's canonical_slug
RecSlug == ModelRecord("acme/new-v1", "acme/old", 0, NoTokens, FALSE)

\* the lists _fetch_models_api may return
CatalogLists == << << RecNew, RecSlug >>, << RecSlug, RecNew >>, << >> >>

\* an index in which a canonical slug overrides whatever holds its key
RECURSIVE BuildIndex_SlugOverrides(_, _)
BuildIndex_SlugOverrides(models, index) ==
    IF models = << >> THEN index
    ELSE LET model == Head(models)
             withId == IF model.id # "" THEN Put(index, model.id, model) ELSE index
             withSlug == IF model.canonical_slug # ""
                         THEN Put(withId, model.canonical_slug, model)
                         ELSE withId
         IN  BuildIndex_SlugOverrides(Tail(models), withSlug)

\* the index built from a fetched list, record by record
RECURSIVE BuildIndex(_, _)
BuildIndex(models, index) ==
    IF models = << >> THEN index
    ELSE LET model == Head(models)
             withId == IF model.id # "" THEN Put(index, model.id, model) ELSE index
             withSlug == IF model.canonical_slug # "" /\ model.canonical_slug \notin DOMAIN withId
                         THEN Put(withId, model.canonical_slug, model)
                         ELSE withId
         IN  BuildIndex(Tail(models), withSlug)

NoCache == [present |-> FALSE, index |-> EmptyDict]

\* a freshness test that takes a cache of any age
CacheFresh_AnyAge(cache, last_fetch, t) == cache.present /\ last_fetch # NoTime

\* a freshness test against the failure cooldown instead of the TTL
CacheFresh_CooldownPeriod(cache, last_fetch, t) ==
    cache.present /\ last_fetch # NoTime /\ (t - last_fetch) < MODELS_API_FAILURE_COOLDOWN_SEC

\* cache is not None and last_fetch is not None and (now - last_fetch) < TTL
CacheFresh(cache, last_fetch, t) ==
    cache.present /\ last_fetch # NoTime /\ (t - last_fetch) < MODELS_API_TTL_SEC

\* a cooldown test that never holds
CooldownActive_Never(last_failure, t) == FALSE

\* last_failure is not None and (now - last_failure) < COOLDOWN
CooldownActive(last_failure, t) ==
    last_failure # NoTime /\ (t - last_failure) < MODELS_API_FAILURE_COOLDOWN_SEC

\* a lock that anyone may take at any time
LockIsFree_NoExclusion(lock) == TRUE

\* with self._models_api_lock: entered only while no thread holds the lock
LockIsFree(lock) == lock = 0

\* capabilities as the claims read them
Capabilities(source, ctx, maxo, fc, generic) ==
    [done |-> TRUE, source |-> source, context_window |-> ctx, max_output_tokens |-> maxo,
     supports_function_calling |-> fc, is_generic |-> generic]

NoCapabilities ==
    [done |-> FALSE, source |-> "none", context_window |-> 0, max_output_tokens |-> 0,
     supports_function_calling |-> FALSE, is_generic |-> FALSE]

\* _lookup_capabilities returned None
NotFound == [NoCapabilities EXCEPT !.done = TRUE, !.source = "not_found"]

\* the generic record synthesized for a provider-prefixed name
GenericCapabilities ==
    Capabilities("generic", GENERIC_CONTEXT_WINDOW, GENERIC_CONTEXT_WINDOW, FALSE, TRUE)

\* the registry file's entry for a canonical name
RegistryHas(n) == n = "acme/small"

RegistryCapabilities == Capabilities("registry", 100, 50, FALSE, FALSE)

\* _build_capabilities_from_models_api
BuildCapabilitiesFromModelsApi(model_info) ==
    LET context_window == IF model_info.context_length # 0 THEN model_info.context_length
                          ELSE GENERIC_CONTEXT_WINDOW
        max_output_tokens == IF model_info.max_completion_tokens # NoTokens
                             THEN model_info.max_completion_tokens
                             ELSE IF context_window < GENERIC_CONTEXT_WINDOW THEN context_window
                             ELSE GENERIC_CONTEXT_WINDOW
    IN  Capabilities("catalog", context_window, max_output_tokens, model_info.tools, FALSE)

\* _lookup_dynamic_model_info once the index is at hand, then the rest of
\* _lookup_capabilities: the catalog record's capabilities, else the generic record
FromIndex(index, n) ==
    IF n \in DOMAIN index THEN BuildCapabilitiesFromModelsApi(index[n])
    ELSE IF HasColon(n) /\ RsplitColon(n) \in DOMAIN index
    THEN BuildCapabilitiesFromModelsApi(index[RsplitColon(n)])
    ELSE GenericCapabilities

CatalogInit ==
    /\ clock = 0
    /\ ticks = 0
    /\ models_api_cache = NoCache
    /\ models_api_last_fetch = NoTime
    /\ models_api_last_failure = NoTime
    /\ models_api_lock = 0
    /\ tpc = [t \in Threads |-> "idle"]
    /\ tnow = [t \in Threads |-> 0]
    /\ tmodel = [t \in Threads |-> "plain"]
    /\ tresult = [t \in Threads |-> NoCapabilities]
    /\ twaited = [t \in Threads |-> NoTime]
    /\ lookups = 0
    /\ fetch_log = << >>

ClockAdvance(d) ==
    /\ ticks < MaxTicks
    /\ ticks' = ticks + 1
    /\ clock' = clock + d
    /\ UNCHANGED << models_api_cache, models_api_last_fetch, models_api_last_failure,
                    models_api_lock, tpc, tnow, tmodel, tresult, twaited, lookups,
                    fetch_log >>
    /\ UNCHANGED nonCatalogVars

\* _lookup_capabilities up to the lock: the registry answers, or the name has no
\* provider prefix, or _get_models_api_cache reads the time and goes for the lock.
LookupStart(t, n) ==
    /\ tpc[t] = "idle"
    /\ lookups < MaxLookups
    /\ lookups' = lookups + 1
    /\ tmodel' = [tmodel EXCEPT ![t] = n]
    /\ twaited' = [twaited EXCEPT ![t] = NoTime]
    /\ IF RegistryHas(n)
       THEN /\ tresult' = [tresult EXCEPT ![t] = RegistryCapabilities]
            /\ UNCHANGED << tpc, tnow >>
       ELSE IF HasSlash(RsplitColon(n))
       THEN /\ tnow' = [tnow EXCEPT ![t] = clock]
            /\ tpc' = [tpc EXCEPT ![t] = "waiting"]
            /\ tresult' = [tresult EXCEPT ![t] = NoCapabilities]
       ELSE /\ tresult' = [tresult EXCEPT ![t] = NotFound]
            /\ UNCHANGED << tpc, tnow >>
    /\ UNCHANGED << clock, ticks, models_api_cache, models_api_last_fetch,
                    models_api_last_failure, models_api_lock, fetch_log >>
    /\ UNCHANGED nonCatalogVars

\* The lock is taken.  A fresh cache is returned and an active cooldown raises, both
\* releasing the lock at once; otherwise the network fetch starts under the lock.
LockAcquired(t) ==
    /\ tpc[t] = "waiting"
    /\ LockIsFree(models_api_lock)
    /\ IF CacheFresh(models_api_cache, models_api_last_fetch, tnow[t])
       THEN /\ tresult' = [tresult EXCEPT ![t] = FromIndex(models_api_cache.index, tmodel[t])]
            /\ tpc' = [tpc EXCEPT ![t] = "idle"]
            /\ UNCHANGED << models_api_lock, fetch_log >>
       ELSE IF CooldownActive(models_api_last_failure, tnow[t])
       THEN /\ tresult' = [tresult EXCEPT ![t] = GenericCapabilities]
            /\ tpc' = [tpc EXCEPT ![t] = "idle"]
            /\ UNCHANGED << models_api_lock, fetch_log >>
       ELSE /\ models_api_lock' = t
            /\ tpc' = [tpc EXCEPT ![t] = "fetching"]
            /\ fetch_log' = Append(fetch_log, [now |-> tnow[t], outcome |-> "in_flight"])
            /\ UNCHANGED tresult
    /\ UNCHANGED << clock, ticks, models_api_cache, models_api_last_fetch,
                    models_api_last_failure, tnow, tmodel, twaited, lookups >>
    /\ UNCHANGED nonCatalogVars

\* The fetch returns a list: the index is built and assigned to the cache
\* (self._models_api_cache = index); the thread keeps the lock.  The value it will
\* return is the index it built.
FetchSucceeds(t, k) ==
    /\ tpc[t] = "fetching"
    /\ LET index == BuildIndex(CatalogLists[k], EmptyDict)
       IN  /\ models_api_cache' = [present |-> TRUE, index |-> index]
           /\ tresult' = [tresult EXCEPT ![t] = FromIndex(index, tmodel[t])]
    /\ tpc' = [tpc EXCEPT ![t] = "stored_cache"]
    /\ fetch_log' = [fetch_log EXCEPT ![Len(fetch_log)].outcome = "ok"]
    /\ twaited' = [u \in Threads |-> IF tpc[u] = "waiting" THEN tnow[t] ELSE twaited[u]]
    /\ UNCHANGED << clock, ticks, models_api_last_fetch, models_api_last_failure, models_api_lock,
                    tnow, tmodel, lookups >>
    /\ UNCHANGED nonCatalogVars

\* self._models_api_last_fetch = now, still under the lock.
StoreLastFetch(t) ==
    /\ tpc[t] = "stored_cache"
    /\ models_api_last_fetch' = tnow[t]
    /\ tpc' = [tpc EXCEPT ![t] = "stored_fetch"]
    /\ UNCHANGED << clock, ticks, models_api_cache, models_api_last_failure, models_api_lock,
                    tnow, tmodel, tresult, twaited, lookups, fetch_log >>
    /\ UNCHANGED nonCatalogVars

\* self._models_api_last_failure = None; return index: the with block is left and
\* the lock released.
ClearFailureAndReturn(t) ==
    /\ tpc[t] = "stored_fetch"
    /\ models_api_last_failure' = NoTime
    /\ models_api_lock' = 0
    /\ tpc' = [tpc EXCEPT ![t] = "idle"]
    /\ UNCHANGED << clock, ticks, models_api_cache, models_api_last_fetch, tnow, tmodel,
                    tresult, twaited, lookups, fetch_log >>
    /\ UNCHANGED nonCatalogVars

\* The fetch raises: the failure time is recorded, the lock is released, and the
\* caller falls back to the generic record.
FetchFails(t) ==
    /\ tpc[t] = "fetching"
    /\ models_api_last_failure' = tnow[t]
    /\ models_api_lock' = 0
    /\ tpc' = [tpc EXCEPT ![t] = "idle"]
    /\ tresult' = [tresult EXCEPT ![t] = GenericCapabilities]
    /\ fetch_log' = [fetch_log EXCEPT ![Len(fetch_log)].outcome = "failed"]
    /\ UNCHANGED << clock, ticks, models_api_cache, models_api_last_fetch, tnow, tmodel, twaited,
                    lookups >>
    /\ UNCHANGED nonCatalogVars

CatalogNext ==
    \/ \E d \in ClockSteps : ClockAdvance(d)
    \/ \E t \in Threads, n \in LookupNames : LookupStart(t, n)
    \/ \E t \in Threads : LockAcquired(t)
    \/ \E t \in Threads, k \in 1..Len(CatalogLists) : FetchSucceeds(t, k)
    \/ \E t \in Threads : StoreLastFetch(t)
    \/ \E t \in Threads : ClearFailureAndReturn(t)
    \/ \E t \in Threads : FetchFails(t)

(***************************************************************************)
(* The call-timeout guard and the provider registry's instance slot        *)
(* (ChatTool._generate_content_with_provider_lock, ModelProviderRegistry). *)
(***************************************************************************)
\* the latest wall-clock time of a run
MaxWall == 3

\* the largest configured call timeout
MaxCallTimeout == 2

\* guarded calls started in one run
MaxCalls == 2

Hosts == {1, 2}

ProviderTypes == {"OPENROUTER", "CUSTOM"}

NoInstance == 0

\* a guard that never gives up on the underlying call
GuardExpired_WaitsForCall(t, d) == FALSE

\* the deadline of a guarded call has been reached
GuardExpired(t, d) == t >= d

\* a timeout that leaves the registry's cached instances as they are
MarkStale_KeepsInstance(slots, p) == slots

\* The registry drops the instance a call timed out on, so that the next request
\* for its type constructs another.
MarkStale(slots, p) ==
    [pt \in DOMAIN slots |-> IF slots[pt] = p THEN NoInstance ELSE slots[pt]]

\* the lock of a provider instance: free when no guard is waiting for a call on it
ProviderLockFree(p) == \A w \in workers : w.instance = p => w.abandoned

\* the underlying call a host's guard is waiting for
WorkerOf(h) == CHOOSE w \in workers : w.host = h /\ ~w.abandoned

GuardInit ==
    /\ wall = 0
    /\ call_timeout_sec \in 1..MaxCallTimeout
    /\ initialized_providers = [pt \in ProviderTypes |-> NoInstance]
    /\ instance_count = 0
    /\ calls_started = 0
    /\ hpc = [h \in Hosts |-> "idle"]
    /\ hprovider = [h \in Hosts |-> NoInstance]
    /\ htype = [h \in Hosts |-> "OPENROUTER"]
    /\ hdeadline = [h \in Hosts |-> 0]
    /\ houtcome = [h \in Hosts |-> "none"]
    /\ hended = [h \in Hosts |-> 0]
    /\ workers = {}

\* ModelProviderRegistry.get_provider: the cached instance of the type, or a newly
\* constructed one that is then cached.
GetProvider(h, pt) ==
    /\ hpc[h] = "idle"
    /\ calls_started < MaxCalls
    /\ IF initialized_providers[pt] # NoInstance
       THEN /\ hprovider' = [hprovider EXCEPT ![h] = initialized_providers[pt]]
            /\ UNCHANGED << initialized_providers, instance_count >>
       ELSE /\ instance_count' = instance_count + 1
            /\ initialized_providers' = [initialized_providers EXCEPT ![pt] = instance_count + 1]
            /\ hprovider' = [hprovider EXCEPT ![h] = instance_count + 1]
    /\ htype' = [htype EXCEPT ![h] = pt]
    /\ hpc' = [hpc EXCEPT ![h] = "ready"]
    /\ UNCHANGED << wall, call_timeout_sec, calls_started, hdeadline, houtcome, hended, workers >>
    /\ UNCHANGED nonGuardVars

\* a property that asks the registry's slot on every access
ResolvedProvider_AsksAgain(held, slot) == IF slot # NoInstance THEN slot ELSE held

\* ModelContext.provider with self._provider set: if self._provider is None is
\* false and self._provider is returned, whatever the registry now caches
ResolvedProvider(held, slot) == held

\* ModelContext.provider on a context that has resolved its provider before: the
\* instance it holds, without asking the registry.
CachedProvider(h) ==
    /\ hpc[h] = "idle"
    /\ hprovider[h] # NoInstance
    /\ calls_started < MaxCalls
    /\ hpc' = [hpc EXCEPT ![h] = "cached"]
    /\ hprovider' = [hprovider EXCEPT
                        ![h] = ResolvedProvider(hprovider[h], initialized_providers[htype[h]])]
    /\ UNCHANGED << wall, call_timeout_sec, initialized_providers, instance_count, calls_started,
                    htype, hdeadline, houtcome, hended, workers >>
    /\ UNCHANGED nonGuardVars

\* The guard takes the lock of the instance it is given, starts the provider call in
\* the background and waits for it, at most until the deadline.
GuardedCallStart(h) ==
    /\ hpc[h] \in {"ready", "cached"}
    /\ ProviderLockFree(hprovider[h])
    /\ calls_started < MaxCalls
    /\ calls_started' = calls_started + 1
    /\ workers' = workers \cup {[id |-> calls_started + 1, instance |-> hprovider[h],
                                 host |-> h, abandoned |-> FALSE]}
    /\ hdeadline' = [hdeadline EXCEPT ![h] = wall + call_timeout_sec]
    /\ houtcome' = [houtcome EXCEPT ![h] = "none"]
    /\ hpc' = [hpc EXCEPT ![h] = "awaiting"]
    /\ UNCHANGED << wall, call_timeout_sec, initialized_providers, instance_count, hprovider,
                    htype, hended >>
    /\ UNCHANGED nonGuardVars

\* The underlying call completes in time, with a response or a failure, and the
\* guard hands that to the host.
CallCompletes(h, how) ==
    /\ hpc[h] = "awaiting"
    /\ workers' = workers \ {WorkerOf(h)}
    /\ houtcome' = [houtcome EXCEPT ![h] = how]
    /\ hended' = [hended EXCEPT ![h] = wall]
    /\ hpc' = [hpc EXCEPT ![h] = "idle"]
    /\ UNCHANGED << wall, call_timeout_sec, initialized_providers, instance_count, calls_started,
                    hprovider, htype, hdeadline >>
    /\ UNCHANGED nonGuardVars

\* The deadline is reached first: TimeoutError goes to the host, the underlying call
\* is left running, and the registry forgets the instance it runs on.
GuardTimeout(h) ==
    /\ hpc[h] = "awaiting"
    /\ GuardExpired(wall, hdeadline[h])
    /\ workers' = (workers \ {WorkerOf(h)}) \cup {[WorkerOf(h) EXCEPT !.abandoned = TRUE]}
    /\ houtcome' = [houtcome EXCEPT ![h] = "TimeoutError"]
    /\ hended' = [hended EXCEPT ![h] = wall]
    /\ hpc' = [hpc EXCEPT ![h] = "idle"]
    /\ initialized_providers' = MarkStale(initialized_providers, hprovider[h])
    /\ UNCHANGED << wall, call_timeout_sec, instance_count, calls_started, hprovider, htype,
                    hdeadline >>
    /\ UNCHANGED nonGuardVars

\* An abandoned call runs to its end in the background; nobody receives its result.
AbandonedCallEnds(w) ==
    /\ w \in workers
    /\ w.abandoned
    /\ workers' = workers \ {w}
    /\ UNCHANGED << wall, call_timeout_sec, initialized_providers, instance_count, calls_started,
                    hpc, hprovider, htype, hdeadline, houtcome, hended >>
    /\ UNCHANGED nonGuardVars

\* Time passes, once every guard whose deadline is due has acted.
WallTick ==
    /\ wall < MaxWall
    /\ \A h \in Hosts : hpc[h] = "awaiting" => ~GuardExpired(wall, hdeadline[h])
    /\ wall' = wall + 1
    /\ UNCHANGED << call_timeout_sec, initialized_providers, instance_count, calls_started, hpc,
                    hprovider, htype, hdeadline, houtcome, hended, workers >>
    /\ UNCHANGED nonGuardVars

GuardNext ==
    \/ \E h \in Hosts, pt \in ProviderTypes : GetProvider(h, pt)
    \/ \E h \in Hosts : CachedProvider(h)
    \/ \E h \in Hosts : GuardedCallStart(h)
    \/ \E h \in Hosts, how \in {"returned", "raised"} : CallCompletes(h, how)
    \/ \E h \in Hosts : GuardTimeout(h)
    \/ \E w \in workers : AbandonedCallEnds(w)
    \/ WallTick

(***************************************************************************)
(* Usage normalisation applied to the usage values a response can carry.   *)
(***************************************************************************)
MaxTokens == 3

UsageKeys == {"prompt_tokens", "completion_tokens", "input_tokens", "output_tokens",
              "total_tokens"}

\* the values a key of a usage block can hold: null, a text that is not a number,
\* a count
UsageValues == {Null, Str(<< "x" >>)} \cup {Num(n) : n \in 0..MaxTokens}

\* every dict over the usage keys, each key absent or holding one of the values
UsageBlocks == {Dict(f) : f \in UNION {[K -> UsageValues] : K \in SUBSET UsageKeys}}

\* a usage value need not be a dict
UsageInputs == UsageBlocks \cup {Null, Num(1), List(<< >>)}

\* {"prompt_tokens": a, "completion_tokens": b}
ChatStyleUsage(a, b) ==
    Dict([k \in {"prompt_tokens", "completion_tokens"} |->
             IF k = "prompt_tokens" THEN Num(a) ELSE Num(b)])

\* {"input_tokens": a, "output_tokens": b}
ResponsesStyleUsage(a, b) ==
    Dict([k \in {"input_tokens", "output_tokens"} |->
             IF k = "input_tokens" THEN Num(a) ELSE Num(b)])

UsageInit ==
    /\ usage_block = Null
    /\ usage_result = NoUsage
    /\ usage_plain = NoUsage
    /\ usage_done = FALSE

\* The usage value of one response is normalised: by self._extract_usage_dict(usage)
\* as the streaming path does, and by self._extract_usage(response) as the
\* non-streaming path does.
NormalizeUsage(block) ==
    /\ ~usage_done
    /\ usage_block' = block
    /\ usage_result' = ExtractUsageDict(block)
    /\ usage_plain' = ExtractUsage(block)
    /\ usage_done' = TRUE
    /\ UNCHANGED nonUsageVars

UsageNext == ~usage_done /\ \E block \in UsageInputs : NormalizeUsage(block)

(***************************************************************************)
(* Token budgeting (ModelContext).  Shares are held in hundredths; a       *)
(* float product truncated with int() is the floor of the exact product,   *)
(* or one less when the exact product is a whole number that the float     *)
(* product may fall just short of.                                         *)
(***************************************************************************)
\* budgeting calls in one run
MaxBudgetOps == 4

LARGE_WINDOW == 300000

MIN_RESERVATION == 2048

PROMPT_COMPONENT_CAP == 2000

FILE_HINT_CAP == 50

NoWindow == 0

NoReserve == -1

\* the context windows of the models budgeted for
Windows == {1, 999, 1000, 1001, 8903, 100000, 299999, 300000}

PromptTokenCounts == {0, 100, 7000}

FileHintCounts == {-1, 2, 51}

\* one ModelContext per token profile compared
Contexts == {"DEFAULT", "CODE_REVIEW"}

Min(a, b) == IF a < b THEN a ELSE b

Max(a, b) == IF a > b THEN a ELSE b

\* int(x) of the float product n / d, for n >= 0
Trunc(n, d) == {n \div d} \cup (IF n % d = 0 /\ n > 0 THEN {(n \div d) - 1} ELSE {})

\* the legacy shares whatever the profile
ProfileShares_Legacy(profile, is_large) ==
    IF is_large THEN [files |-> 32, history |-> 32, response |-> 20, prompt |-> 16]
                ELSE [files |-> 18, history |-> 30, response |-> 40, prompt |-> 12]

\* _profile_shares, in hundredths of the context window
ProfileShares(profile, is_large) ==
    CASE profile = "CODE_REVIEW" ->
           IF is_large THEN [files |-> 50, history |-> 15, response |-> 20, prompt |-> 15]
                       ELSE [files |-> 45, history |-> 12, response |-> 23, prompt |-> 20]
      [] profile = "SYSTEM_DESIGN_REVIEW" ->
           IF is_large THEN [files |-> 60, history |-> 10, response |-> 20, prompt |-> 10]
                       ELSE [files |-> 55, history |-> 10, response |-> 22, prompt |-> 13]
      [] OTHER ->
           IF is_large THEN [files |-> 32, history |-> 32, response |-> 20, prompt |-> 16]
                       ELSE [files |-> 18, history |-> 30, response |-> 40, prompt |-> 12]

\* base and per_file of estimate_response_tokens
EstimateBase(profile) ==
    CASE profile = "CODE_REVIEW" -> [base |-> 2500, per_file |-> 140]
      [] profile = "SYSTEM_DESIGN_REVIEW" -> [base |-> 3500, per_file |-> 180]
      [] OTHER -> [base |-> 3000, per_file |-> 120]

TokenAllocation(total, content, response, files, history) ==
    [present |-> TRUE, total_tokens |-> total, content_tokens |-> content,
     response_tokens |-> response, file_tokens |-> files, history_tokens |-> history]

NoAllocation ==
    [present |-> FALSE, total_tokens |-> 0, content_tokens |-> 0, response_tokens |-> 0,
     file_tokens |-> 0, history_tokens |-> 0]

NoKey == [profile |-> "", reserved |-> NoReserve]

\* the allocations calculate_token_allocation can compute for a window, a profile
\* and an effective reservation
Allocations(total_tokens, profile, effective_reserved) ==
    LET shares == ProfileShares(profile, total_tokens >= LARGE_WINDOW)
        non_response == shares.files + shares.history + shares.prompt
    IN  { TokenAllocation(total_tokens, total_tokens - response_tokens, response_tokens,
                          Min(f, Max(0, total_tokens - response_tokens)),
                          Min(h, Max(0, total_tokens - response_tokens
                                          - Min(f, Max(0, total_tokens - response_tokens))))) :
            << response_tokens, f, h >> \in
               UNION { UNION { { << r, f, h >> : h \in Trunc((total_tokens - r) * shares.history, non_response) } :
                                 f \in Trunc((total_tokens - r) * shares.files, non_response) } :
                       r \in { Max(1, IF effective_reserved = NoReserve THEN m
                                       ELSE Min(effective_reserved, m)) :
                                  m \in Trunc(total_tokens * shares.response, 100) } } }

\* the reservations estimate_response_tokens can store; NoReserve when the response
\* cap is 0 and it returns 1 without storing one
Reservations(total_tokens, profile, prompt_tokens, file_hint_count) ==
    LET shares == ProfileShares(profile, total_tokens >= LARGE_WINDOW)
        e == EstimateBase(profile)
    IN  UNION { IF response_cap <= 0 THEN {NoReserve}
                ELSE { Max(Min(MIN_RESERVATION, response_cap),
                           Min(e.base + e.per_file * Min(Max(file_hint_count, 0), FILE_HINT_CAP)
                                 + Min(pc, PROMPT_COMPONENT_CAP),
                               response_cap)) :
                         pc \in Trunc(prompt_tokens * 30, 100) } :
                response_cap \in Trunc(total_tokens * shares.response, 100) }

BudgetInit ==
    /\ model_context_window = NoWindow
    /\ preferred_response_tokens = [c \in Contexts |-> NoReserve]
    /\ token_allocation = [c \in Contexts |-> NoAllocation]
    /\ token_allocation_key = [c \in Contexts |-> NoKey]
    /\ budget_ops = 0

\* ModelContext(model, token_profile = c) for each profile, on one model whose
\* capabilities carry the context window w
NewContexts(w) ==
    /\ model_context_window = NoWindow
    /\ model_context_window' = w
    /\ UNCHANGED << preferred_response_tokens, token_allocation, token_allocation_key, budget_ops >>
    /\ UNCHANGED nonBudgetVars

\* estimate_response_tokens(prompt_tokens, file_hint_count) on the context of
\* profile c: the reservation is stored for later allocations; a window whose
\* response cap is 0 returns 1 without storing it
EstimateResponseTokens(c, prompt_tokens, file_hint_count) ==
    /\ model_context_window # NoWindow
    /\ budget_ops < MaxBudgetOps
    /\ budget_ops' = budget_ops + 1
    /\ \E reserved \in Reservations(model_context_window, c, prompt_tokens, file_hint_count) :
          preferred_response_tokens' =
              IF reserved = NoReserve THEN preferred_response_tokens
              ELSE [preferred_response_tokens EXCEPT ![c] = reserved]
    /\ UNCHANGED << model_context_window, token_allocation, token_allocation_key >>
    /\ UNCHANGED nonBudgetVars

\* calculate_token_allocation() on the context of profile c: the cached allocation
\* when the cache key is unchanged, else a new one, which is cached
CalculateTokenAllocation(c) ==
    /\ model_context_window # NoWindow
    /\ budget_ops < MaxBudgetOps
    /\ budget_ops' = budget_ops + 1
    /\ LET cache_key == [profile |-> c, reserved |-> preferred_response_tokens[c]]
       IN  IF token_allocation[c].present /\ token_allocation_key[c] = cache_key
           THEN UNCHANGED << token_allocation, token_allocation_key >>
           ELSE /\ \E allocation \in Allocations(model_context_window, c, preferred_response_tokens[c]) :
                      token_allocation' = [token_allocation EXCEPT ![c] = allocation]
                /\ token_allocation_key' = [token_allocation_key EXCEPT ![c] = cache_key]
    /\ UNCHANGED << model_context_window, preferred_response_tokens >>
    /\ UNCHANGED nonBudgetVars

BudgetNext ==
    \/ \E w \in Windows : NewContexts(w)
    \/ \E c \in Contexts, p \in PromptTokenCounts, f \in FileHintCounts :
          EstimateResponseTokens(c, p, f)
    \/ \E c \in Contexts : CalculateTokenAllocation(c)

vars == << streamVars, retryVars, allowVars, catalogVars, guardVars, usageVars, budgetVars >>

Init == StreamInit /\ RetryInit /\ AllowInit /\ CatalogInit /\ GuardInit /\ UsageInit /\ BudgetInit

SpecStream == Init /\ [][StreamNext]_vars

SpecRetry == Init /\ [][RetryNext]_vars

\* An attempt in progress returns or raises, and a sleep ends.
RetryFairness ==
    /\ WF_vars(AttemptSucceeds \/ \E k \in 1..Len(AttemptErrors) : AttemptFails(AttemptErrors[k]))
    /\ WF_vars(Sleep)

SpecRetryLive == Init /\ [][RetryNext]_vars /\ RetryFairness

SpecAllow == Init /\ [][AllowNext]_vars

\* One generate_content call on a provider: construction, validation, attempts.
GenerateNext ==
    \/ \E k \in 1..Len(EnvSettings) : Construct(k)
    \/ \E n \in Names, s \in {"chat_completions", "responses"} : GenerateContent(n, s)
    \/ AttemptSucceeds
    \/ \E k \in 1..Len(AttemptErrors) : AttemptFails(AttemptErrors[k])
    \/ Sleep

SpecGenerate == Init /\ [][GenerateNext]_vars

SpecCatalog == Init /\ [][CatalogNext]_vars

SpecGuard == Init /\ [][GuardNext]_vars

SpecUsage == Init /\ [][UsageNext]_vars

SpecBudget == Init /\ [][BudgetNext]_vars

(***************************************************************************)
(* Properties of the stream aggregator.                                    *)
(***************************************************************************)
Last(s) == s[Len(s)]

Front(s) == SubSeq(s, 1, Len(s) - 1)

Terminal == {"COMPLETED", "FAILED", "TIMED_OUT"}

\* the string tokens choices[].delta.content of one delivered line, in order
StringTokensOf(line) ==
    IF line.head = "data:" /\ line.raw = "json" /\ IsDict(line.val)
       /\ IsList(Get(line.val, "choices"))
    THEN LET HasText(c) == /\ IsDict(c)
                           /\ IsDict(Get(c, "delta"))
                           /\ IsStr(Get(Get(c, "delta"), "content"))
             sel == SelectSeq(Get(line.val, "choices").v, HasText)
         IN  [k \in 1..Len(sel) |-> Get(Get(sel[k], "delta"), "content").v]
    ELSE << >>

\* the concatenation of the string tokens of a sequence of delivered lines
RECURSIVE TokensConcat(_)
TokensConcat(lines) ==
    IF lines = << >> THEN << >>
    ELSE TokensConcat(Front(lines)) \o Join(StringTokensOf(Last(lines)))

CompletedByDone == sstate = "COMPLETED" /\ received # << >> /\ Last(received).raw = "[DONE]"

\* C1: a chat-completions stream that reaches [DONE] without a failure returns the
\* concatenation, in arrival order, of every string delta token of the data events
\* delivered before [DONE], the captured first-activity line included.
C1_ChatContentIsConcatenation ==
    (shape = "chat_completions" /\ CompletedByDone)
        => (result.present /\ result.content = TokensConcat(Front(received)))

\* keep-alive, "hi", " there", [DONE] yields "hi there"
C1_Witness ==
    /\ shape = "chat_completions"
    /\ sstate = "COMPLETED"
    /\ received = << KeepAliveLine, ChatDelta1Line, ChatDelta2Line, DoneLine >>
    /\ result.content = Tok1 \o Tok2

\* C2: in every terminal state of a streaming call, of either shape, the byte stream
\* has been closed.
C2_TerminalImpliesClosed == (sstate \in Terminal) => closed

\* a first-activity timeout with the stream closed
C2_Witness == sstate = "TIMED_OUT" /\ closed /\ received = << >>

\* C3: once the configured timeout has elapsed since the stream opened with no
\* qualifying line received, the wait can only end in the timeout error, which carries
\* the configured value; no line is read after that instant and no content or
\* response is ever produced from the stream.
C3_FirstActivityTimeout ==
    /\ [](sstate = "TIMED_OUT" =>
            /\ error.kind = "first_activity_timeout"
            /\ error.timeout = timeout_sec
            /\ ~result.present
            /\ content_parts = << >> /\ output_parts = << >>)
    /\ [][(sstate = "AWAITING_FIRST_ACTIVITY" /\ now >= timeout_sec)
            => (sstate' \in {"AWAITING_FIRST_ACTIVITY", "TIMED_OUT"} /\ received' = received)]_vars
    /\ [][sstate = "TIMED_OUT" => (sstate' = "TIMED_OUT" /\ received' = received /\ result' = result)]_vars

\* the timeout fires exactly at the deadline, before any line was delivered
C3_Witness ==
    /\ sstate = "TIMED_OUT"
    /\ now = timeout_sec
    /\ received = << >>
    /\ error.timeout = timeout_sec

\* the texts of the output_text entries of a response.completed line, concatenated
AuthoritativeText(line) ==
    LET output == Get(Get(line.val, "response"), "output").v
        IsText(e) == IsDict(e) /\ IsType(Get(e, "type"), "output_text") /\ IsStr(Get(e, "text"))
        RECURSIVE Items(_)
        Items(k) == IF k > Len(output) THEN << >>
                    ELSE LET entries == IF IsDict(output[k]) /\ IsList(Get(output[k], "content"))
                                        THEN SelectSeq(Get(output[k], "content").v, IsText)
                                        ELSE << >>
                         IN  Join([j \in 1..Len(entries) |-> Get(entries[j], "text").v]) \o Items(k + 1)
    IN  Items(1)

\* the stream completed on a response.completed event whose response carries an output list
CompletedWithOutputList ==
    /\ shape = "responses"
    /\ sstate = "COMPLETED"
    /\ received # << >>
    /\ Last(received).raw = "json"
    /\ IsDict(Last(received).val)
    /\ IsType(Get(Last(received).val, "type"), "response.completed")
    /\ IsDict(Get(Last(received).val, "response"))
    /\ IsList(Get(Get(Last(received).val, "response"), "output"))

\* C4: a responses stream whose response.completed event carries a response.output
\* list returns the concatenation of its output_text texts, whether or not delta
\* events preceded it.
C4_CompletedOutputIsContent ==
    CompletedWithOutputList => result.content = AuthoritativeText(Last(received))

(***************************************************************************)
(* Properties of the retry loop.                                           *)
(***************************************************************************)
\* the text contains "429" and the payload parsed out of it has error.type == "tokens"
IsTokens429(e) == e.has429 /\ e.braces = "dict" /\ e.etype = "tokens"

\* a 429 that carries no structured error type or code
IsUnstructured429(e) ==
    /\ e.has429
    /\ e.braces \in {"none", "dict"}
    /\ e.etype = "" /\ e.ecode = ""
    /\ ~e.sdk

\* C5 as stated: whenever an attempt failed with a tokens 429, the call made exactly
\* one attempt in total and slept no delay.
C5_Original ==
    (\E i \in 1..Len(errors) : IsTokens429(errors[i]))
        => (attempt_counter = 1 /\ slept = << >>)

\* C5, amended: an attempt that fails with a tokens 429 is the last one; no delay is
\* slept after it and no further attempt is started, whatever else its text contains,
\* so the call made as many attempts as that attempt's ordinal: exactly one, with no
\* delay slept, when it is the first attempt.
C5_Tokens429EndsTheCall ==
    \A i \in 1..Len(errors) :
        IsTokens429(errors[i]) =>
            /\ i = Len(errors)
            /\ rphase = "failed"
            /\ attempt_counter = i
            /\ Len(slept) = i - 1
            /\ failure.present /\ failure.attempts = i

\* the first attempt fails with a tokens 429 whose text also holds an indicator word
C5_Witness ==
    /\ rphase = "failed"
    /\ errors = << Tokens429Timeout >>
    /\ attempt_counter = 1
    /\ slept = << >>

\* C6: when every attempt fails with a 429 that carries no structured type or code,
\* the call fails only after exactly max_attempts (4) attempts, at either call site.
C6_Unstructured429UsesAllAttempts ==
    (rphase = "failed" /\ \A i \in 1..Len(errors) : IsUnstructured429(errors[i]))
        => (attempt_counter = 4 /\ Len(errors) = 4 /\ attempt_counter = MaxRetries(site))

\* four attempts, three sleeps, then the failure
C6_Witness ==
    /\ rphase = "failed"
    /\ site = "responses"
    /\ errors = << Plain429, Plain429, Bare429, Plain429 >>
    /\ attempt_counter = 4
    /\ slept = << 1, 3, 5 >>

(***************************************************************************)
(* Properties of the allow-list.                                           *)
(***************************************************************************)
\* the configured allow-list: the lowercase non-empty entries of the setting
ConfiguredAllowList == {Lower(env_allowed[i]) : i \in {j \in 1..Len(env_allowed) : env_allowed[j] # ""}}

\* what an allow-list entry alias-resolves to: its canonical name in the registry,
\* the entry itself when the registry does not know it
AliasResolved(entry) == IF RegistryResolve(entry) # "" THEN RegistryResolve(entry) ELSE entry

RefetchWithinTtl(i, j) ==
    /\ i < j
    /\ fetch_log[i].outcome = "ok"
    /\ fetch_log[j].now >= fetch_log[i].now
    /\ fetch_log[j].now - fetch_log[i].now < MODELS_API_TTL_SEC

InCooldown(t) ==
    /\ fetch_log # << >>
    /\ Last(fetch_log).outcome = "failed"
    /\ t >= Last(fetch_log).now
    /\ t - Last(fetch_log).now < MODELS_API_FAILURE_COOLDOWN_SEC

IsGenericRecord(c) ==
    /\ c.done
    /\ c.is_generic
    /\ c.context_window = GENERIC_CONTEXT_WINDOW
    /\ ~c.supports_function_calling

C10_TimeoutAtDeadline ==
    \A h \in Hosts :
        /\ hpc[h] = "awaiting" => wall <= hdeadline[h]
        /\ (hpc[h] = "idle" /\ houtcome[h] = "TimeoutError") => hended[h] = hdeadline[h]

\* a host got TimeoutError at its deadline, time has moved on, and the underlying
\* call it gave up on is still running
C10_Witness ==
    \E h \in Hosts :
        /\ hpc[h] = "idle"
        /\ houtcome[h] = "TimeoutError"
        /\ hended[h] = hdeadline[h]
        /\ wall > hdeadline[h]
        /\ \E w \in workers : w.host = h /\ w.abandoned /\ w.instance = hprovider[h]


(***************************************************************************)
(* Rotation of the provider instance after a timeout.                      *)
(***************************************************************************)
\* host g's last guarded call timed out, on the instance g still holds
TimedOutOn(g, p) ==
    /\ hpc[g] = "idle"
    /\ houtcome[g] = "TimeoutError"
    /\ hprovider[g] = p

\* C11: once a call on instance P has ended with TimeoutError, a request to the
\* registry for P's provider type returns an instance other than P, constructed
\* after P.
C11_RegistryRotatesAfterTimeout ==
    [][\A h \in Hosts :
          (hpc[h] = "idle" /\ hpc'[h] = "ready")
              => \A g \in Hosts :
                    (TimedOutOn(g, hprovider[g]) /\ htype[g] = htype'[h])
                        => hprovider'[h] > hprovider[g]]_vars

\* a host whose call timed out has asked the registry again and holds the instance
\* constructed for that request, while its abandoned call still runs on the old one
C11_Witness ==
    \E h \in Hosts :
        /\ hpc[h] = "ready"
        /\ houtcome[h] = "TimeoutError"
        /\ hprovider[h] = instance_count
        /\ initialized_providers[htype[h]] = hprovider[h]
        /\ \E w \in workers : w.host = h /\ w.abandoned /\ w.instance < hprovider[h]

\* C12: no two calls are in flight on the same provider instance, an abandoned call
\* that is still running counting as in flight.
C12_OneCallPerInstance ==
    \A w1 \in workers : \A w2 \in workers : w1.instance = w2.instance => w1 = w2


(***************************************************************************)
(* Alias resolution.                                                       *)
(***************************************************************************)
\* C13: _resolve_model_name returns a name for every input, and for a name that
\* matches no registry entry or alias it returns the very name it was given,
\* whatever names were resolved on the instance before.
C13_UnknownNameResolvesToItself ==
    last_resolve.done =>
        /\ last_resolve.resolved # ""
        /\ RegistryResolve(last_resolve.model_name) = ""
              => last_resolve.resolved = last_resolve.model_name


(***************************************************************************)
(* The catalog's critical section.                                         *)
(***************************************************************************)
FetchesInFlight == {i \in 1..Len(fetch_log) : fetch_log[i].outcome = "in_flight"}

\* thread t is between the start of its fetch and its return
InCriticalSection(t) == tpc[t] \in {"fetching", "stored_cache", "stored_fetch"}

\* the thread that fetches or installs, and it alone, holds the lock; one fetch at
\* most is in flight, and it is the lock holder's
OneFetchUnderLock ==
    /\ Cardinality(FetchesInFlight) <= 1
    /\ Cardinality({t \in Threads : InCriticalSection(t)}) <= 1
    /\ \A t \in Threads : InCriticalSection(t) <=> models_api_lock = t
    /\ (FetchesInFlight # {}) <=> (\E t \in Threads : tpc[t] = "fetching")

\* thread t leaves the lock queue having waited through another thread's successful
\* fetch, its own time reading less than the TTL after that fetch's
ServedAfterWaiting(t) ==
    /\ tpc[t] = "waiting"
    /\ tpc'[t] # "waiting"
    /\ twaited[t] # NoTime
    /\ tnow[t] - twaited[t] < MODELS_API_TTL_SEC

C15_NonRetryableStopsAtOnce ==
    \A i \in 1..Len(errors) :
        ~IsErrorRetryable(errors[i])
            => /\ i = Len(errors)
               /\ rphase = "failed"
               /\ attempt_counter = i
               /\ Len(slept) = i - 1

\* a retryable failure, one sleep, then a non-retryable failure on attempt 2 of 4
C15_Witness ==
    /\ rphase = "failed"
    /\ Len(errors) = 2
    /\ IsErrorRetryable(errors[1])
    /\ ~IsErrorRetryable(errors[2])
    /\ attempt_counter = 2
    /\ slept = << 1 >>

\* C16: a failed call raises one aggregated failure, at either call site, whose
\* message gives the number of attempts made (the operation's invocations) and ends
\* with the text of the last underlying error.
C16_FailureNamesAttemptsAndLastError ==
    /\ failure.present <=> rphase = "failed"
    /\ failure.present
          => /\ errors # << >>
             /\ failure.attempts = attempt_counter
             /\ failure.attempts = Len(errors)
             /\ failure.last = Last(errors)

\* the responses call site failed on its third attempt
C16_Witness ==
    /\ site = "responses"
    /\ failure.present
    /\ failure.attempts = 3
    /\ Len(errors) = 3
    /\ failure.last = errors[3]
    /\ errors[3] # errors[2]

\* the call is over: it returned a response or raised its failure
RetryTerminal == rphase \in {"returned", "failed"}

\* the attempts that returned a response
Successes == attempt_counter - Len(errors)

\* at most max_attempts attempts, a success only as the last of them, and one
\* outcome: a response or a failure, never both
BoundedAttemptsOneOutcome ==
    /\ attempt_counter <= MaxRetries(site)
    /\ Successes \in {0, 1}
    /\ Successes = 1 <=> rphase = "returned"
    /\ rphase = "returned" => ~failure.present
    /\ rphase = "failed" <=> failure.present
    /\ ~RetryTerminal => Successes = 0 /\ ~failure.present

\* C17: a call that has entered its retry loop ends, given that each attempt comes
\* back and each sleep ends, with one outcome, a response or a failure, after at
\* most max_attempts attempts, none of them started after a successful one; the
\* outcome then stands.
C17_CallTerminatesWithOneOutcome ==
    /\ []BoundedAttemptsOneOutcome
    /\ [][RetryTerminal => UNCHANGED retryVars]_vars
    /\ (rphase = "attempting") ~> RetryTerminal

\* three retryable failures and their sleeps, then the fourth attempt returned
C17_Witness ==
    /\ rphase = "returned"
    /\ attempt_counter = MaxRetries(site)
    /\ Len(errors) = MaxRetries(site) - 1
    /\ slept = << 1, 3, 5 >>


(***************************************************************************)
(* Validation before the retry loop.                                       *)
(***************************************************************************)
\* C18: a generate_content call for a model the allow-list rejects fails before
\* the retry loop: no attempt is made, no delay is slept, and no aggregated failure
\* of the loop is raised.
C18_RejectedModelMakesNoAttempt ==
    (last_check.done /\ ~last_check.allowed)
        => /\ rphase = "rejected"
           /\ attempt_counter = 0
           /\ errors = << >>
           /\ slept = << >>
           /\ ~failure.present

\* an allow-list is configured, the requested model is not on it, and the call has
\* been rejected
C18_Witness ==
    /\ allowed_models.restricted
    /\ last_check.done
    /\ ~last_check.allowed
    /\ Lower(last_check.requested) \notin ConfiguredAllowList
    /\ rphase = "rejected"
    /\ attempt_counter = 0

(***************************************************************************)
(* Usage normalisation.                                                    *)
(***************************************************************************)
\* C19: for all counts a, b >= 0 with a + b > 0, the blocks {prompt_tokens: a,
\* completion_tokens: b} and {input_tokens: a, output_tokens: b}, neither with a
\* total_tokens key, normalise to the same record {input_tokens: a,
\* output_tokens: b, total_tokens: a + b}.
C19_BothSchemasNormalizeAlike ==
    usage_done =>
        \A a \in 0..MaxTokens, b \in 0..MaxTokens :
            (a + b > 0 /\ usage_block \in {ChatStyleUsage(a, b), ResponsesStyleUsage(a, b)})
                => /\ usage_result = UsageRec(a, b, a + b)
                   /\ ExtractUsageDict(ChatStyleUsage(a, b)) = usage_result
                   /\ ExtractUsageDict(ResponsesStyleUsage(a, b)) = usage_result

\* a responses-style block with counts 1 and 2 has been normalised to 1, 2, 3
C19_Witness ==
    /\ usage_done
    /\ usage_block = ResponsesStyleUsage(1, 2)
    /\ usage_result = UsageRec(1, 2, 3)

\* the counts a block reports, for a block that uses the keys of one schema only
\* and holds a count under each key it has
ReportedCounts(block) == {block.v[k].v : k \in DOMAIN block.v}

OneSchemaCounts(block) ==
    /\ IsDict(block)
    /\ \/ DOMAIN block.v \subseteq {"prompt_tokens", "completion_tokens", "total_tokens"}
       \/ DOMAIN block.v \subseteq {"input_tokens", "output_tokens"}
    /\ \A k \in DOMAIN block.v : block.v[k].t = "num"

Unprefixed(n) == ~RegistryHas(n) /\ n \in {"plain", "plain:a/b"}

\* C21: a lookup of a name that is absent from the registry and whose base name
\* (the part before a ":" variant suffix) contains no "/" reports NotFound: it
\* never goes for the catalog (no wait for the lock, no fetch), and its result is
\* neither a catalog record nor the generic record.
C21_UnprefixedNameIsNotFound ==
    /\ [](\A t \in Threads :
              Unprefixed(tmodel[t])
                  => /\ tpc[t] = "idle"
                     /\ tresult[t].done => tresult[t] = NotFound)
    /\ [][\A t \in Threads :
              (lookups' # lookups /\ tmodel'[t] # tmodel[t] /\ Unprefixed(tmodel'[t]))
                  => /\ tresult'[t] = NotFound
                     /\ fetch_log' = fetch_log
                     /\ models_api_cache' = models_api_cache]_vars

\* "plain:a/b" has a "/" only in its variant suffix; its lookup has reported NotFound
C21_Witness ==
    \E t \in Threads :
        /\ tmodel[t] = "plain:a/b"
        /\ tresult[t] = NotFound
        /\ tpc[t] = "idle"
        /\ lookups > 0

(***************************************************************************)
(* Authoritative output against the delta fallback.                        *)
(***************************************************************************)
\* a response.output_text.delta event with a non-empty text was delivered before
\* the last line
DeltasReceived ==
    \E i \in 1..(Len(received) - 1) :
        /\ received[i].raw = "json"
        /\ IsDict(received[i].val)
        /\ IsType(Get(received[i].val, "type"), "response.output_text.delta")
        /\ IsStr(Get(received[i].val, "delta"))
        /\ Get(received[i].val, "delta").v # << >>

\* the concatenation of the delta texts delivered, in order
RECURSIVE DeltasConcat(_)
DeltasConcat(lines) ==
    IF lines = << >> THEN << >>
    ELSE LET line == Last(lines)
             text == IF line.raw = "json" /\ IsDict(line.val)
                        /\ IsType(Get(line.val, "type"), "response.output_text.delta")
                        /\ IsStr(Get(line.val, "delta"))
                     THEN Get(line.val, "delta").v ELSE << >>
         IN  DeltasConcat(Front(lines)) \o text

\* C22: in a responses stream in which delta events and then a response.completed
\* event carrying a response.output payload were received, the content of the
\* result is the text extracted from response.output, never the concatenation of
\* the deltas.
C22_OutputWinsOverDeltas ==
    (CompletedWithOutputList /\ DeltasReceived)
        => /\ result.present
           /\ result.content = AuthoritativeText(Last(received))
           /\ result.content # DeltasConcat(received)

(***************************************************************************)
(* Token budgeting.                                                        *)
(***************************************************************************)
\* both contexts hold an allocation, the CODE_REVIEW one computed with the
\* reservation estimate_response_tokens stored
BothAllocated ==
    /\ token_allocation["DEFAULT"].present
    /\ token_allocation["CODE_REVIEW"].present
    /\ token_allocation_key["CODE_REVIEW"].reserved # NoReserve

\* C23: for one context window of at least 1000 tokens, the allocation under the
\* CODE_REVIEW profile, computed after estimate_response_tokens stored its
\* reservation, has strictly more file tokens and strictly fewer history tokens
\* than the allocation under the DEFAULT profile.
C23_ReviewProfileFavoursFiles ==
    (model_context_window >= 1000 /\ BothAllocated)
        => /\ token_allocation["CODE_REVIEW"].file_tokens > token_allocation["DEFAULT"].file_tokens
           /\ token_allocation["CODE_REVIEW"].history_tokens < token_allocation["DEFAULT"].history_tokens

\* a window of 100000: DEFAULT allocated without a reservation, CODE_REVIEW after
\* its estimate
C23_Witness ==
    /\ model_context_window = 100000
    /\ BothAllocated
    /\ token_allocation_key["DEFAULT"].reserved = NoReserve
    /\ token_allocation["DEFAULT"].file_tokens = 18000
    /\ token_allocation["CODE_REVIEW"].file_tokens > 18000
    /\ token_allocation["CODE_REVIEW"].history_tokens < token_allocation["DEFAULT"].history_tokens

(***************************************************************************)
(* Responses-schema usage with a reported total.                           *)
(***************************************************************************)
\* {"input_tokens": a, "output_tokens": b, "total_tokens": t}
FullResponsesUsage(a, b, t) ==
    Dict([k \in {"input_tokens", "output_tokens", "total_tokens"} |->
             CASE k = "input_tokens" -> Num(a)
               [] k = "output_tokens" -> Num(b)
               [] OTHER -> Num(t)])

\* C24: a responses-schema block {input_tokens: a, output_tokens: b,
\* total_tokens: t} without prompt_tokens and completion_tokens keys normalises to
\* {input_tokens: a, output_tokens: b, total_tokens: t}; stated for the blocks a
\* provider reports, in which t = a + b and both counts are positive.
C24_ResponsesCountsKeptWithTotal ==
    usage_done =>
        \A a \in 1..MaxTokens, b \in 1..MaxTokens :
            usage_block = FullResponsesUsage(a, b, a + b)
                => usage_result = UsageRec(a, b, a + b)

(***************************************************************************)
(* In-band errors.                                                         *)
(***************************************************************************)
\* the lines of received that the loop body has run over: every data line but the
\* captured first line while it still waits to be replayed
Processed(i) ==
    /\ i \in 1..Len(received)
    /\ received[i].head = "data:"
    /\ (i < Len(received) \/ replay = << >>)

\* a data line whose text parsed to an object with an "error" key
CarriesErrorField(line) ==
    /\ line.head = "data:" /\ line.raw = "json" /\ IsDict(line.val)
    /\ "error" \in DOMAIN line.val.v

\* ... whose "error" value is neither null nor empty nor zero
CarriesError(line) == CarriesErrorField(line) /\ Truthy(line.val.v["error"])

\* the call failed on line i with that line's error, and nothing came after it
FailedOn(i) ==
    /\ sstate = "FAILED"
    /\ i = Len(received)
    /\ error.kind = "in_band_error"
    /\ error.detail = received[i].val.v["error"]
    /\ ~result.present

\* C25 as stated: in either shape, every parsed data object that contains an
\* "error" field fails the call at once with that error in the message.
C25_Original ==
    \A i \in 1..Len(received) :
        (Processed(i) /\ CarriesErrorField(received[i])) => FailedOn(i)

\* C25: in either stream shape, a parsed data object whose "error" field holds a
\* value that is not null, empty or zero fails the call at once with that error in
\* the failure message: it is the last line processed, no ModelResponse is
\* returned, and the failed call stays as it is.
C25_InBandErrorFailsAtOnce ==
    /\ [](\A i \in 1..Len(received) :
              (Processed(i) /\ CarriesError(received[i])) => FailedOn(i))
    /\ [][sstate = "FAILED" => UNCHANGED streamVars]_vars

\* a responses stream failed on an error object that followed a delta
C25_Witness ==
    /\ shape = "responses"
    /\ received = << RespDelta1Line, ErrorObjLine >>
    /\ FailedOn(2)
    /\ error.detail = Dict([message |-> Str(<< "x" >>)])

(***************************************************************************)
(* HTTP errors at the opening of the stream.                               *)
(***************************************************************************)
\* C26: when the HTTP status is >= 400 as the stream opens, the attempt fails at
\* once: no SSE line is read, the first-activity wait is never started (no deadline
\* is fixed), no response is returned, and the failure carries at most the first
\* 2000 characters of the body.  A lower status never fails this way.
C26_HttpErrorFailsAtOpen ==
    /\ status_code >= 400
          => /\ sstate = "FAILED"
             /\ error.kind = "http_status"
             /\ error.body <= 2000
             /\ received = << >>
             /\ deadline = 0
             /\ ~result.present
             /\ closed
    /\ status_code < 400 => error.kind # "http_status"

\* a 503 whose body is longer than 2000 characters
C26_Witness ==
    /\ status_code = 503
    /\ sstate = "FAILED"
    /\ error.kind = "http_status"
    /\ error.body = 2000
    /\ received = << >>

(***************************************************************************)
(* Lines during the first-activity wait.                                   *)
(***************************************************************************)
\* the lines that qualify as first activity: the data lines and the keep-alive
\* comment naming both OPENROUTER and PROCESSING
Qualifying(line) == line.head = "data:" \/ line = KeepAliveLine

\* C27: during AWAITING_FIRST_ACTIVITY a delivered line ends the wait exactly when
\* it starts with "data:" or is a comment whose uppercased text contains both
\* OPENROUTER and PROCESSING; a blank line, another comment or any other text is
\* skipped: the wait goes on, nothing is handed to the loop, and the deadline fixed
\* when the wait began stays as it was.
C27_OnlyQualifyingLinesEndTheWait ==
    /\ [][(sstate = "AWAITING_FIRST_ACTIVITY" /\ received' # received)
             => IF Qualifying(Last(received'))
                THEN sstate' = "STREAMING" /\ replay' = << Last(received') >>
                ELSE /\ sstate' = "AWAITING_FIRST_ACTIVITY"
                     /\ replay' = << >>
                     /\ deadline' = deadline
                     /\ now' = now]_vars
    /\ [][sstate = "AWAITING_FIRST_ACTIVITY" => deadline' = deadline]_vars
    /\ [](sstate = "AWAITING_FIRST_ACTIVITY" =>
             /\ deadline = timeout_sec
             /\ \A i \in 1..Len(received) : ~Qualifying(received[i]))

\* a blank line, a comment naming only OPENROUTER and an event: line were skipped,
\* and the wait still runs against its first deadline
C27_Witness ==
    /\ sstate = "AWAITING_FIRST_ACTIVITY"
    /\ received = << BlankLine, HalfCommentLine, EventLine >>
    /\ now > 0
    /\ deadline = timeout_sec

(***************************************************************************)
(* A stream that ends during the first-activity wait.                      *)
(***************************************************************************)
\* C28: a stream that ends before any qualifying line ends the call in TIMED_OUT
\* with a timeout error naming the configured timeout, also before the deadline:
\* short of the deadline the wait is left only for STREAMING, by a qualifying line,
\* or for TIMED_OUT, and never with a response.
C28_EndBeforeActivityIsTimeout ==
    /\ [][(sstate = "AWAITING_FIRST_ACTIVITY" /\ now < deadline /\ sstate' # sstate)
             => \/ sstate' = "STREAMING" /\ Qualifying(Last(received'))
                \/ /\ sstate' = "TIMED_OUT"
                   /\ received' = received
                   /\ error'.kind = "first_activity_timeout"
                   /\ error'.timeout = timeout_sec
                   /\ error'.detail = Str(<< "ended before first activity" >>)]_vars
    /\ [](sstate = "TIMED_OUT" =>
             /\ error.timeout = timeout_sec
             /\ ~result.present
             /\ \A i \in 1..Len(received) : ~Qualifying(received[i]))

\* the stream ended after a blank line, before the deadline
C28_Witness ==
    /\ sstate = "TIMED_OUT"
    /\ now < deadline
    /\ received = << BlankLine >>
    /\ error.timeout = timeout_sec
    /\ error.detail = Str(<< "ended before first activity" >>)
    /\ ~result.present

(***************************************************************************)
(* The deadline after first activity.                                      *)
(***************************************************************************)
\* C29: once a qualifying line has been received the first-activity deadline is not
\* applied again: TIMED_OUT is entered only from AWAITING_FIRST_ACTIVITY, and while
\* the call is STREAMING the passing of time, however far past the deadline, leaves
\* the state, the parts and the error as they are.
C29_NoDeadlineAfterFirstActivity ==
    /\ [][(sstate' = "TIMED_OUT" /\ sstate # "TIMED_OUT") => sstate = "AWAITING_FIRST_ACTIVITY"]_vars
    /\ [][(sstate = "STREAMING" /\ now' # now)
             => /\ sstate' = "STREAMING"
                /\ error' = NoError
                /\ UNCHANGED << received, replay, content_parts, output_parts, usage, closed, result >>]_vars
    /\ [](sstate \in {"STREAMING", "COMPLETED"} => error = NoError)

\* a stream that completed with text after the clock ran past the deadline
C29_Witness ==
    /\ sstate = "COMPLETED"
    /\ now > deadline
    /\ now = MaxTime
    /\ Len(received) >= 2
    /\ result.present
    /\ result.content # << >>
    /\ error = NoError

(***************************************************************************)
(* The usage snapshot of a chat-completions stream.                        *)
(***************************************************************************)
\* a decoded chunk that carries a usage block
CarriesUsage(line) ==
    /\ line.head = "data:"
    /\ line.raw = "json"
    /\ IsDict(line.val)
    /\ IsDict(Get(line.val, "usage"))

\* the usage block of the last line of lines that carries one, Null when none does
RECURSIVE LastUsageBlock(_)
LastUsageBlock(lines) ==
    IF lines = << >> THEN Null
    ELSE IF CarriesUsage(Last(lines)) THEN Get(Last(lines).val, "usage")
    ELSE LastUsageBlock(SubSeq(lines, 1, Len(lines) - 1))

\* C30: in a chat-completions stream every event that carries a usage block
\* overwrites the running snapshot, so the usage of the result is the normalization
\* of the last usage block received before the stream completed.
C30_LastUsageBlockWins ==
    (sstate = "COMPLETED" /\ shape = "chat_completions")
        => result.usage = ExtractUsageDict(LastUsageBlock(received))

(***************************************************************************)
(* The keys of the catalog index.                                          *)
(***************************************************************************)
\* some record of models has this id
IsIdIn(models, key) == \E i \in 1..Len(models) : models[i].id = key

\* one fetched list and the index built from it: every id is a key, a key that is a
\* record's id holds a record of that id, and a key held by a record of another id
\* is that record's canonical slug and no record's id
IdsWinOverSlugs(models, index) ==
    /\ \A i \in 1..Len(models) : models[i].id \in DOMAIN index
    /\ \A key \in DOMAIN index :
          /\ IsIdIn(models, key) => index[key].id = key
          /\ index[key].id # key => index[key].canonical_slug = key /\ ~IsIdIn(models, key)
          /\ \E i \in 1..Len(models) : models[i] = index[key]

\* C31: in the lookup built from one catalog fetch a key that is the id of some
\* record maps to a record having that id, and a canonical slug is a key only when
\* no record's id occupies that key, whatever the order of the fetched records.
C31_IdsWinOverSlugs ==
    models_api_cache.present =>
        /\ \E k \in 1..Len(CatalogLists) :
              models_api_cache.index = BuildIndex(CatalogLists[k], EmptyDict)
        /\ \A k \in 1..Len(CatalogLists) :
              models_api_cache.index = BuildIndex(CatalogLists[k], EmptyDict)
                  => IdsWinOverSlugs(CatalogLists[k], models_api_cache.index)

\* the index of a list in which one record's slug is another record's id
C31_Witness ==
    /\ models_api_cache.present
    /\ DOMAIN models_api_cache.index = {"acme/new", "acme/new-v1", "acme/old"}
    /\ models_api_cache.index["acme/new-v1"] = RecSlug
    /\ models_api_cache.index["acme/old"] = RecSlug
    /\ models_api_cache.index["acme/new"] = RecNew

(***************************************************************************)
(* The installation of a fetched catalog.                                  *)
(***************************************************************************)
\* a thread has assigned the cache and not yet returned
Installing == \E t \in Threads : tpc[t] \in {"stored_cache", "stored_fetch"}

\* the fetches that succeeded
OkFetches == {i \in 1..Len(fetch_log) : fetch_log[i].outcome = "ok"}

LatestOk == CHOOSE i \in OkFetches : \A j \in OkFetches : j <= i

\* the cache, the fetch time and the cooldown marker belong to the same fetch: the
\* fetch time is the latest successful fetch's, and a marker that is set is the time
\* of a fetch that failed after it
InstalledTogether ==
    models_api_cache.present
        => /\ OkFetches # {}
           /\ models_api_last_fetch = fetch_log[LatestOk].now
           /\ models_api_last_failure # NoTime
                 => \E j \in (LatestOk + 1)..Len(fetch_log) :
                       /\ fetch_log[j].outcome = "failed"
                       /\ fetch_log[j].now = models_api_last_failure

\* thread t reads the cache, the fetch time and the marker in this step
Observes(t) == tpc[t] = "waiting" /\ tpc'[t] # "waiting"

\* C32: a successful fetch installs the mapping, the new last_fetch and the cleared
\* cooldown marker inside the critical section: a thread reads the three only while
\* no installation is under way, and what it reads then is one fetch's mapping and
\* time with no marker left from before that fetch.
C32_InstallIsAtomicToReaders ==
    /\ [][\A t \in Threads : Observes(t) => ~Installing /\ InstalledTogether]_vars
    /\ [](~Installing => InstalledTogether)
    /\ [](Installing => models_api_lock # 0)

\* the refreshed mapping is in place beside the old fetch time and a marker still
\* set, while another thread waits for the lock
C32_Witness ==
    /\ models_api_cache.present
    /\ Len(fetch_log) = 2
    /\ fetch_log[1].outcome = "failed"
    /\ fetch_log[2].outcome = "ok"
    /\ models_api_last_fetch = NoTime
    /\ models_api_last_failure = fetch_log[1].now
    /\ \E t, u \in Threads : tpc[t] = "stored_cache" /\ tpc[u] = "waiting"

(***************************************************************************)
(* A mapping older than the TTL.                                           *)
(***************************************************************************)
\* a mapping is held and, by the time thread t read, it is TTL seconds old or older
StaleFor(t) ==
    /\ models_api_cache.present
    /\ models_api_last_fetch # NoTime
    /\ tnow[t] - models_api_last_fetch >= MODELS_API_TTL_SEC

\* C38: a mapping older than the TTL is never returned to a lookup.  A lookup that
\* finds it either starts a refresh or, the cooldown being active, gets the generic
\* record; a refresh that fails gives the generic record too; in both cases the
\* stale mapping stays in memory as it was.
C38_StaleMappingIsNotServed ==
    /\ [][\A t \in Threads :
             (Observes(t) /\ StaleFor(t))
                 => \/ tpc'[t] = "fetching"
                    \/ /\ tpc'[t] = "idle"
                       /\ models_api_last_failure # NoTime
                       /\ tnow[t] - models_api_last_failure < MODELS_API_FAILURE_COOLDOWN_SEC
                       /\ IsGenericRecord(tresult'[t])
                       /\ fetch_log' = fetch_log
                       /\ models_api_cache' = models_api_cache]_vars
    /\ [][\A t \in Threads :
             (tpc[t] = "fetching" /\ tpc'[t] = "idle")
                 => /\ IsGenericRecord(tresult'[t])
                    /\ models_api_cache' = models_api_cache
                    /\ models_api_last_fetch' = models_api_last_fetch]_vars

\* the mapping that lists acme/new is a TTL old; one lookup of acme/new saw its
\* refresh fail, another ran into the cooldown, and both got the generic record
C38_Witness ==
    /\ models_api_cache.present
    /\ "acme/new" \in DOMAIN models_api_cache.index
    /\ Len(fetch_log) = 2
    /\ fetch_log[1].outcome = "ok"
    /\ fetch_log[2].outcome = "failed"
    /\ \A t \in Threads :
          /\ tpc[t] = "idle"
          /\ tmodel[t] = "acme/new"
          /\ tnow[t] - models_api_last_fetch >= MODELS_API_TTL_SEC
          /\ IsGenericRecord(tresult[t])

(***************************************************************************)
(* The delays handed to the retry loop.                                    *)
(***************************************************************************)
\* C33: the retry loop is invoked with len(delays) = max_attempts - 1 at every call
\* site, attempt 1 starts with no sleep, and the sleep after the retryable failure
\* of attempt i + 1 is delays[i] (counted from 0).
C33_DelaysMatchAttempts ==
    rphase # "idle" =>
        /\ Len(RetryDelays(site)) = MaxRetries(site) - 1
        /\ Len(slept) = attempt_index
        /\ \A i \in 1..Len(slept) : slept[i] = RetryDelays(site)[i]

(***************************************************************************)
(* Usage on the non-streaming path.                                        *)
(***************************************************************************)
\* a usage block that holds a count under each key it has, and has the two count
\* keys of the chat-completions schema
ChatCounts(block) ==
    /\ IsDict(block)
    /\ {"prompt_tokens", "completion_tokens"} \subseteq DOMAIN block.v
    /\ DOMAIN block.v \subseteq {"prompt_tokens", "completion_tokens", "total_tokens"}
    /\ \A k \in DOMAIN block.v : block.v[k].t = "num"

\* C34: the non-streaming path normalizes usage as the streaming path does: for the
\* same reported counts both give the same usage value, with a missing total
\* computed as input + output and an all-zero result reported as absent.
C34_SameNormalizationOnBothPaths ==
    (usage_done /\ ChatCounts(usage_block)) =>
        /\ usage_plain = usage_result
        /\ "total_tokens" \notin DOMAIN usage_block.v
              => usage_plain.total_tokens = usage_plain.input_tokens + usage_plain.output_tokens
        /\ (usage_plain.input_tokens = 0 /\ usage_plain.output_tokens = 0
               /\ usage_plain.total_tokens = 0) => ~usage_plain.present

(***************************************************************************)
(* The responses endpoint has no fallback.                                 *)
(***************************************************************************)
\* C35: when the capabilities select the responses endpoint, the failure of that
\* endpoint after its own retries is raised to the caller: every attempt of the call
\* is made at the responses call site, and once the loop has failed nothing more is
\* attempted.
C35_NoFallbackToChat ==
    /\ [][(site = "responses" /\ rphase \in {"attempting", "sleeping", "failed"})
             => site' = "responses"]_vars
    /\ [][rphase = "failed"
             => /\ rphase' = "failed"
                /\ UNCHANGED << site, errors, attempt_counter, slept, failure >>]_vars
    /\ []((site = "responses" /\ rphase = "failed")
             => /\ failure.present
                /\ failure.last = Last(errors)
                /\ failure.attempts = Len(errors))

\* the responses endpoint failed on each of its four attempts and the call has failed
C35_Witness ==
    /\ site = "responses"
    /\ rphase = "failed"
    /\ Len(errors) = MAX_RETRIES_RESPONSES
    /\ slept = << 1, 3, 5 >>
    /\ failure.present
    /\ failure.attempts = MAX_RETRIES_RESPONSES

(***************************************************************************)
(* Retries after a first-activity timeout.                                 *)
(***************************************************************************)
\* what the classifier reads of the first-activity errors: the wait timed out or
\* the stream ended, with a timeout of the stream model or with TIMEOUT_429
NoActivityErrors ==
    {ClassifierView(FirstActivityTimeoutError(t)) : t \in (1..MaxTimeout) \cup {TIMEOUT_429}}
        \cup {ClassifierView(StreamEndedError(t)) : t \in (1..MaxTimeout) \cup {TIMEOUT_429}}

\* each _attempt opens one stream, right after it has counted itself
StreamsOpened == attempt_counter

EveryAttemptSawNoActivity ==
    /\ errors # << >>
    /\ \A i \in 1..Len(errors) : errors[i] \in NoActivityErrors

\* C36: the first-activity TimeoutError is retryable for the default classifier, so
\* a call whose every attempt sees no first activity opens one stream per attempt,
\* max_attempts streams in all, before it fails.
C36_NoActivityUsesEveryAttempt ==
    /\ \A e \in NoActivityErrors : IsErrorRetryable(e)
    /\ (EveryAttemptSawNoActivity /\ rphase = "failed")
          => /\ StreamsOpened = MaxRetries(site)
             /\ Len(errors) = MaxRetries(site)
             /\ failure.attempts = MaxRetries(site)
             /\ failure.last \in NoActivityErrors
    /\ (EveryAttemptSawNoActivity /\ rphase \in {"sleeping", "failed"})
          => StreamsOpened = Len(errors)

\* four attempts timed out awaiting first activity, the last with a timeout that
\* prints as 429, and the call has failed
C36_Witness ==
    /\ rphase = "failed"
    /\ Len(errors) = 4
    /\ \A i \in 1..3 : errors[i] = ClassifierView(FirstActivityTimeoutError(MaxTimeout))
    /\ errors[4] = ClassifierView(StreamEndedError(TIMEOUT_429))
    /\ StreamsOpened = 4
    /\ slept = << 1, 3, 5 >>

(***************************************************************************)
(* A stream that ends without its terminating event.                       *)
(***************************************************************************)
\* [DONE], or a response.completed event
IsTerminator(line) ==
    \/ line.raw = "[DONE]"
    \/ /\ line.raw = "json"
       /\ IsDict(line.val)
       /\ IsType(Get(line.val, "type"), "response.completed")

NoTerminator == \A i \in 1..Len(received) : ~IsTerminator(received[i])

\* C37: a stream that ends after first activity without its terminating event and
\* without an error finishes the call as COMPLETED, and the result holds the delta
\* text accumulated so far, which may be empty.
C37_TruncatedStreamCompletes ==
    /\ [][(sstate = "STREAMING" /\ replay = << >> /\ received' = received /\ sstate' # sstate)
             => /\ sstate' = "COMPLETED"
                /\ result'.present
                /\ error' = NoError]_vars
    /\ []((sstate = "COMPLETED" /\ NoTerminator)
             => /\ result.present
                /\ error = NoError
                /\ closed
                /\ result.content = IF shape = "chat_completions"
                                     THEN TokensConcat(received)
                                     ELSE DeltasConcat(received))

\* a responses stream ended after a keep-alive and one delta: the call completed
\* with the delta's text
C37_Witness ==
    /\ shape = "responses"
    /\ sstate = "COMPLETED"
    /\ received = << KeepAliveLine, RespDelta1Line >>
    /\ result.present
    /\ result.content = Tok1

(***************************************************************************)
(* The allow-list check and the instance's history.                        *)
(***************************************************************************)
\* a provider instance just constructed from the same environment
FreshInstance ==
    [allowed |-> TRUE, names |-> ParseAllowedModels(env_allowed).names, alias_cache |-> EmptyDict,
     allowed_alias_cache |-> EmptyDict]

\* what a fresh instance decides for the pair, over the orders its set may yield
FreshOutcomes(requested, canonical) ==
    {EnsureModelAllowed(order, canonical, requested, FreshInstance).allowed :
        order \in OrdersOf(FreshInstance.names)}

\* C39: the outcome of the allow-list check for a (requested name, canonical name)
\* pair does not depend on the checks made before it on the instance: with its
\* memoised entries and the canonical names added back to the set, the instance
\* decides as a fresh instance would.
C39_OutcomeIndependentOfHistory ==
    (last_check.done /\ allowed_models.restricted)
        => FreshOutcomes(last_check.requested, last_check.canonical) = {last_check.allowed}

\* after a check that added a canonical name to the set and memoised the entries,
\* a request for another model is denied
C39_Witness ==
    /\ allowed_models.restricted
    /\ env_allowed = << "zed/x", "big" >>
    /\ allowed_models.names = {"zed/x", "big", "acme/big"}
    /\ {"zed/x", "big"} \subseteq DOMAIN allowed_alias_cache
    /\ last_check.done
    /\ last_check.requested = "sm"
    /\ ~last_check.allowed

(***************************************************************************)
(* The provider a ModelContext holds.                                      *)
(***************************************************************************)
\* C40: ModelContext.provider asks the registry on its first access only and
\* returns the same instance on every later access: a later access leaves the
\* registry alone and yields the instance the context holds, also when a timeout
\* has made the registry rotate to another instance since.
C40_ContextKeepsItsProvider ==
    /\ [][\A h \in Hosts :
             (hpc[h] = "idle" /\ hpc'[h] = "cached")
                 => /\ hprovider[h] # NoInstance
                    /\ hprovider'[h] = hprovider[h]
                    /\ UNCHANGED << initialized_providers, instance_count >>]_vars
    /\ [][\A h \in Hosts :
             (hpc[h] = "cached" /\ hpc'[h] = "awaiting")
                 => \E w \in workers' \ workers : w.host = h /\ w.instance = hprovider[h]]_vars

\* a context whose call timed out on its instance is accessed again after the
\* registry has constructed a newer instance for its type, and yields the old one
C40_Witness ==
    \E h \in Hosts :
        /\ hpc[h] = "cached"
        /\ houtcome[h] = "TimeoutError"
        /\ initialized_providers[htype[h]] # NoInstance
        /\ initialized_providers[htype[h]] > hprovider[h]

====
